---- MODULE Spec2Model ----
(***************************************************************************)
(* Winter Cheer NFT mini-app: the documented WinterCheerNFT contract, the  *)
(* Supabase mint store behind the API routes, the WinterCheerMint          *)
(* component (handleGenerate / handleMint) and the useWinterCheerMint hook *)
(* (mintNFT) driven by the MintInterface page.                             *)
(***************************************************************************)
EXTENDS Integers, FiniteSets, Sequences, TLC

\* ------------------------------------------------------------------ bounds
\* Number of distinct Farcaster ids in the model.
NumFids == 2
\* MAX_SUPPLY of the contract, scaled down so that the supply can run out.
MAX_SUPPLY == 2
\* Images the image service returns for one request.
MaxImages == 1
\* Pixels in the sampled area of a profile picture.
MaxPixels == 2
\* The largest identifier generateTraits is called with.
MaxTraitFid == 5

\* MINT_FEE, in units of 0.00001 ether.
MINT_FEE == 1

Fids == 1..NumFids
\* The fids the contract is called with: those of the users of the pages
\* and one more, of an account that calls the contract itself.
ContractFids == 1..(NumFids + 1)
WSessions == {"w1", "w2"}

\* ------------------------------------------------------------------ state
VARIABLES
    chain,        \* WinterCheerNFT storage: totalMinted and the two mappings
    minted_nfts,  \* Supabase table minted_nfts: the fids with a row
    minted_fid,   \* SpacetimeDB table minted_fid: the fids with a row
    w,            \* one WinterCheerMint component per session
    h,            \* the MintInterface page with its useWinterCheerMint hook
    call,         \* the last call of a library function or route: its
                  \* name, its input and what it returned
    notification_tokens,
                  \* Supabase table notification_tokens: the row of each fid
    ac            \* one mount of the useAutoConnectWallet hook

vars == <<chain, minted_nfts, minted_fid, w, h, call, notification_tokens, ac>>

\* A fid without a row in notification_tokens.
NoRow == [fid |-> 0, token |-> "", notification_url |-> "", is_active |-> FALSE]

\* No library function or route has been called yet.
NoCall == [op |-> "none", in |-> <<>>, out |-> <<>>]

\* ------------------------------------------------------- thrown values
\* What a rejected promise of a collaborator carries: an Error with a
\* message, an Error with an empty message, or a value that is no Error.
Thrown == {"Error", "EmptyError", "NonError"}

\* err instanceof Error ? err.message : 'Unknown error'
ErrMessage(t) ==
    CASE t = "Error"      -> "external failure"
      [] t = "EmptyError" -> ""
      [] t = "NonError"   -> "Unknown error"

\* ------------------------------------------------------------ contract
CallerKinds == {"owner", "other"}
Uris == {"", "ipfs://metadata"}

\* mint without its require on farcasterIdToTokenId.
MintRevertNoFidCheck(fid, uri, value) ==
    IF value < MINT_FEE THEN "Insufficient mint fee"
    ELSE IF chain.totalMinted >= MAX_SUPPLY THEN "Max supply reached"
    ELSE IF uri = "" THEN "Token URI cannot be empty"
    ELSE "ok"

\* mint without its require on the length of the URI.
MintRevertNoUriCheck(fid, uri, value) ==
    IF value < MINT_FEE THEN "Insufficient mint fee"
    ELSE IF chain.totalMinted >= MAX_SUPPLY THEN "Max supply reached"
    ELSE IF chain.farcasterIdToTokenId[fid] # 0 THEN "FID already minted"
    ELSE "ok"

\* The require statements of mint, in order; "ok" when all pass.
MintRevert(fid, uri, value) ==
    IF value < MINT_FEE THEN "Insufficient mint fee"
    ELSE IF chain.totalMinted >= MAX_SUPPLY THEN "Max supply reached"
    ELSE IF chain.farcasterIdToTokenId[fid] # 0 THEN "FID already minted"
    ELSE IF uri = "" THEN "Token URI cannot be empty"
    ELSE "ok"

\* adminMint without its require on farcasterIdToTokenId.
AdminMintRevertNoFidCheck(caller, fid) ==
    IF caller # "owner" THEN "OwnableUnauthorizedAccount"
    ELSE IF chain.totalMinted >= MAX_SUPPLY THEN "Max supply reached"
    ELSE "ok"

\* onlyOwner and the require statements of adminMint, in order.
AdminMintRevert(caller, fid) ==
    IF caller # "owner" THEN "OwnableUnauthorizedAccount"
    ELSE IF chain.totalMinted >= MAX_SUPPLY THEN "Max supply reached"
    ELSE IF chain.farcasterIdToTokenId[fid] # 0 THEN "FID already minted"
    ELSE "ok"

\* hasFidMinted(fid): farcasterIdToTokenId[fid] != 0
hasFidMinted(fid) == chain.farcasterIdToTokenId[fid] # 0

\* totalMinted++, tokenId = totalMinted, the two mapping writes.
Issue(fid) ==
    LET tokenId == chain.totalMinted + 1 IN
    [totalMinted          |-> tokenId,
     farcasterIdToTokenId |-> [chain.farcasterIdToTokenId EXCEPT ![fid] = tokenId],
     tokenIdToFarcasterId |-> [chain.tokenIdToFarcasterId EXCEPT ![tokenId] = fid]]

\* One executed call: a revert changes no storage.
Execute(fid, result) ==
    chain' = IF result = "ok" THEN Issue(fid) ELSE chain

\* mint(to, fid, uri) payable
Mint(fid, uri, value) == Execute(fid, MintRevert(fid, uri, value))

\* adminMint(to, fid) onlyOwner
AdminMintCall(caller, fid) == Execute(fid, AdminMintRevert(caller, fid))

\* A call of adminMint by any account.
AdminMint ==
    /\ \E caller \in CallerKinds, fid \in Fids : AdminMintCall(caller, fid)
    /\ UNCHANGED <<minted_nfts, minted_fid, w, h, call, notification_tokens, ac>>

\* A call of mint sent to the contract directly, with any arguments.
DirectMint ==
    /\ \E fid \in Fids, uri \in Uris, value \in {0, MINT_FEE} : Mint(fid, uri, value)
    /\ UNCHANGED <<minted_nfts, minted_fid, w, h, call, notification_tokens, ac>>

\* A transaction calling mint, with the call and its result on record.
ContractMint ==
    /\ \E caller \in CallerKinds, fid \in ContractFids, uri \in Uris,
          value \in {0, MINT_FEE} :
         /\ Mint(fid, uri, value)
         /\ call' = [op  |-> "mint",
                     in  |-> [caller |-> caller, fid |-> fid, uri |-> uri, value |-> value],
                     out |-> MintRevert(fid, uri, value)]
    /\ UNCHANGED <<minted_nfts, minted_fid, w, h, notification_tokens, ac>>

\* A transaction calling adminMint, with the call and its result on record.
ContractAdminMint ==
    /\ \E caller \in CallerKinds, fid \in ContractFids :
         /\ AdminMintCall(caller, fid)
         /\ call' = [op  |-> "adminMint",
                     in  |-> [caller |-> caller, fid |-> fid, uri |-> "", value |-> 0],
                     out |-> AdminMintRevert(caller, fid)]
    /\ UNCHANGED <<minted_nfts, minted_fid, w, h, notification_tokens, ac>>

\* ------------------------------------------------------- trait-generator
SKIN_TONES ==
    <<"Porcelain", "Fair", "Light", "Medium", "Tan", "Deep">>

HAIR_STYLES ==
    <<"Short Spiky", "Wavy Bob", "Long Straight", "Twin Tails", "Ponytail",
      "Messy Bun", "Braided Crown", "Side Part", "Curly Afro", "Pixie Cut",
      "Long Wavy", "Straight Bang", "Side Swept", "High Ponytail",
      "Low Pigtails", "Shoulder Length", "Wolf Cut", "Mullet", "Buzz Cut",
      "Dreadlocks">>

EYE_STYLES ==
    <<"Round Sparkle", "Sleepy", "Cat Eyes", "Wide Innocent", "Sharp",
      "Determined", "Gentle", "Mysterious", "Happy Crescent", "Serious",
      "Cute Dot", "Starry", "Sad", "Closed Smile", "Intense">>

OUTFITS ==
    <<"Santa Suit", "Ski Outfit", "Rudolf Costume", "Elf Outfit",
      "Snowman Costume", "Gingerbread Costume", "Ice Royalty",
      "Candy Cane Striped", "Mrs. Claus Dress", "Winter Warrior">>

ACCESSORIES ==
    <<"Candy Cane", "Teddy Bear", "Gift Box", "Snowflake Wand",
      "Ornament Ball", "Jingle Bells", "Mistletoe Branch", "Winter Scarf",
      "Snow Globe", "Holiday Wreath", "Hot Cocoa Mug", "Gingerbread Cookie",
      "String Lights", "Poinsettia", "None">>

HEAD_ACCESSORIES ==
    <<"Santa Hat", "Reindeer Antlers", "Elf Hat", "Winter Beanie",
      "Fuzzy Earmuffs", "Holly Crown", "Snowflake Tiara", "Knit Cap",
      "Aviator Hat", "Halo", "Festive Headband", "None">>

BACKGROUNDS ==
    <<"Snowy Forest", "Cozy Fireplace Room", "North Pole Workshop",
      "Snow-Covered Village", "Starry Winter Night", "Aurora Borealis",
      "Candy Cane Land", "Santa's Workshop Interior", "Ice Castle",
      "Christmas Tree Farm">>

SPECIAL_EFFECTS ==
    <<"Falling Snowflakes", "Magic Sparkles", "Festive Glow",
      "Frost Particles", "Golden Light", "Star Dust", "Aurora Shimmer",
      "None">>

\* Math.sin of y thousandths of a radian, in thousandths: the argument is
\* reduced to one period and the half wave is Bhaskara's rational
\* approximation 16x(pi - x) / (5 pi^2 - 4x(pi - x)).
MathSin(y) ==
    LET pi == 3142
        x == y % (2 * pi)
        half(t) == LET p == t * (pi - t) IN (160 * p) \div ((5 * pi * pi - 4 * p) \div 100)
    IN  IF x <= pi THEN half(x) ELSE 0 - half(x - pi)

\* seededRandom(fid, seed), in thousandths: x = Math.sin(fid * 12.9898 +
\* seed * 78.233) * 43758.5453, then x - Math.floor(x).
seededRandom(fid, seed) ==
    LET y == (fid * 129898 + seed * 782330) \div 10
        sin == MathSin(y)
        x == sin * 43758 + (sin * 5453) \div 10000
    IN  x % 1000

\* pickRandom with Math.round in the place of Math.floor.
pickRandomRounded(array, fid, seed) ==
    LET index == (seededRandom(fid, seed) * Len(array) + 500) \div 1000 IN
    IF index \in 0..(Len(array) - 1) THEN array[index + 1] ELSE "undefined"

\* pickRandom(array, fid, seed): array[Math.floor(seededRandom * length)];
\* an index outside the array reads undefined.
pickRandom(array, fid, seed) ==
    LET index == (seededRandom(fid, seed) * Len(array)) \div 1000 IN
    IF index \in 0..(Len(array) - 1) THEN array[index + 1] ELSE "undefined"

\* generateTraits picking the hair style from a seed of its own per gender.
generateTraitsGendered(fid, gender, dominantColor) ==
    [gender        |-> gender,
     skinTone      |-> pickRandom(SKIN_TONES, fid, 1),
     hairStyle     |-> pickRandom(HAIR_STYLES, fid, IF gender = "Female" THEN 2 ELSE 9),
     hairColor     |-> dominantColor,
     eyeStyle      |-> pickRandom(EYE_STYLES, fid, 3),
     outfit        |-> pickRandom(OUTFITS, fid, 4),
     outfitColor   |-> dominantColor,
     accessory     |-> pickRandom(ACCESSORIES, fid, 5),
     headAccessory |-> pickRandom(HEAD_ACCESSORIES, fid, 6),
     background    |-> pickRandom(BACKGROUNDS, fid, 7),
     specialEffect |-> pickRandom(SPECIAL_EFFECTS, fid, 8)]

\* generateTraits(fid, gender, dominantColor)
generateTraits(fid, gender, dominantColor) ==
    [gender        |-> gender,
     skinTone      |-> pickRandom(SKIN_TONES, fid, 1),
     hairStyle     |-> pickRandom(HAIR_STYLES, fid, 2),
     hairColor     |-> dominantColor,
     eyeStyle      |-> pickRandom(EYE_STYLES, fid, 3),
     outfit        |-> pickRandom(OUTFITS, fid, 4),
     outfitColor   |-> dominantColor,
     accessory     |-> pickRandom(ACCESSORIES, fid, 5),
     headAccessory |-> pickRandom(HEAD_ACCESSORIES, fid, 6),
     background    |-> pickRandom(BACKGROUNDS, fid, 7),
     specialEffect |-> pickRandom(SPECIAL_EFFECTS, fid, 8)]

\* traitsToAttributes with the hair color under both color labels.
traitsToAttributesHairTwice(traits) ==
    <<[trait_type |-> "Gender", value |-> traits.gender],
      [trait_type |-> "Skin Tone", value |-> traits.skinTone],
      [trait_type |-> "Hair Style", value |-> traits.hairStyle],
      [trait_type |-> "Hair Color", value |-> traits.hairColor],
      [trait_type |-> "Eye Style", value |-> traits.eyeStyle],
      [trait_type |-> "Outfit", value |-> traits.outfit],
      [trait_type |-> "Outfit Color", value |-> traits.hairColor],
      [trait_type |-> "Accessory", value |-> traits.accessory],
      [trait_type |-> "Head Accessory", value |-> traits.headAccessory],
      [trait_type |-> "Background", value |-> traits.background],
      [trait_type |-> "Special Effect", value |-> traits.specialEffect]>>

\* traitsToAttributes(traits)
traitsToAttributes(traits) ==
    <<[trait_type |-> "Gender", value |-> traits.gender],
      [trait_type |-> "Skin Tone", value |-> traits.skinTone],
      [trait_type |-> "Hair Style", value |-> traits.hairStyle],
      [trait_type |-> "Hair Color", value |-> traits.hairColor],
      [trait_type |-> "Eye Style", value |-> traits.eyeStyle],
      [trait_type |-> "Outfit", value |-> traits.outfit],
      [trait_type |-> "Outfit Color", value |-> traits.outfitColor],
      [trait_type |-> "Accessory", value |-> traits.accessory],
      [trait_type |-> "Head Accessory", value |-> traits.headAccessory],
      [trait_type |-> "Background", value |-> traits.background],
      [trait_type |-> "Special Effect", value |-> traits.specialEffect]>>

\* ------------------------------------------------- Supabase store, routes
\* checkFIDMinted: a query error is answered false.
checkFIDMinted(fid, queryOk) == queryOk /\ fid \in minted_nfts

\* getNFTByFID: the row, or null on a query error or when there is none.
getNFTByFID(fid, queryOk) == queryOk /\ fid \in minted_nfts

\* GET /api/check-mint-status for a numeric fid: the JSON it answers.
CheckMintStatusRoute(fid, q1, q2) ==
    LET hasMinted == checkFIDMinted(fid, q1) IN
    [success   |-> TRUE,
     hasMinted |-> hasMinted,
     nft       |-> IF hasMinted THEN getNFTByFID(fid, q2) ELSE FALSE]

\* The route without its check of images.length.
GenerateNftRouteNoImageCheck(fid, dominantColor, fluxThrew, images) ==
    IF fid = 0 \/ dominantColor = "null"
    THEN [success |-> FALSE, error |-> "Missing required fields: fid, gender, dominantColor"]
    ELSE IF fluxThrew
    THEN [success |-> FALSE, error |-> "Failed to generate NFT: external failure"]
    ELSE [success |-> TRUE, error |-> ""]

\* POST /api/generate-nft: the JSON it answers when the image service
\* throws, or returns `images` images.
GenerateNftRoute(fid, dominantColor, fluxThrew, images) ==
    IF fid = 0 \/ dominantColor = "null"
    THEN [success |-> FALSE, error |-> "Missing required fields: fid, gender, dominantColor"]
    ELSE IF fluxThrew
    THEN [success |-> FALSE, error |-> "Failed to generate NFT: external failure"]
    ELSE IF images = 0
    THEN [success |-> FALSE, error |-> "Failed to generate NFT: No images generated"]
    ELSE [success |-> TRUE, error |-> ""]

\* mapToPin: the ipfsUri of the metadata pin, `ipfs://${cid}`.
PinnedUri == "ipfs://metadata"

\* POST /api/compress-and-upload: the JSON it answers.
CompressAndUploadRoute(fid, pinned) ==
    IF fid = 0
    THEN [success |-> FALSE, error |-> "Missing required fields: imageUrl, fid, traits",
          metadataIpfsUri |-> ""]
    ELSE IF ~pinned
    THEN [success |-> FALSE, error |-> "Failed to compress and upload: external failure",
          metadataIpfsUri |-> ""]
    ELSE [success |-> TRUE, error |-> "", metadataIpfsUri |-> PinnedUri]

\* recordMint: the insert into minted_nfts, fid being UNIQUE; TRUE when the
\* row was inserted.
recordMintInserts(fid, dbOk) == dbOk /\ fid \notin minted_nfts

\* POST /api/record-mint: the table after the request.
RecordMintRoute(fid, metadataIpfsUri, dbOk) ==
    IF fid = 0 \/ metadataIpfsUri = "" THEN minted_nfts
    ELSE IF recordMintInserts(fid, dbOk) THEN minted_nfts \cup {fid}
    ELSE minted_nfts

\* --------------------------------------------- WinterCheerMint component
MintStatuses ==
    {"idle", "checking", "analyzing", "generating", "uploading", "minting",
     "success", "error"}

NoNftData == [present |-> FALSE, metadataIpfsUri |-> ""]

\* What one attempt has done so far: the answer of the image service
\* ("none" before it answers), whether the upload and the mint transaction
\* were invoked, whether a successful receipt was obtained, whether a mint
\* record was written, whether a catch block of the handler has run, the
\* metadata URI the pinning returned ("" before it returns).
NoAttempt ==
    [gen |-> "none", upload |-> FALSE, tx |-> FALSE, confirmed |-> FALSE,
     recorded |-> FALSE, failed |-> FALSE, pinned |-> ""]

\* useState initial values of the component, plus the position of its
\* effects (sdk, ck) and of the running handler (pc).
WInit ==
    [sdk |-> "pending", fid |-> 0, pfpUrl |-> FALSE, dominantColor |-> "null",
     isConnected |-> FALSE, mintStatus |-> "idle", hasMinted |-> FALSE,
     nftData |-> NoNftData, error |-> "null", ck |-> "none", pc |-> "none",
     txResult |-> "none", txPrior |-> FALSE, txUri |-> "", att |-> NoAttempt,
     escaped |-> FALSE]

\* Await points of handleGenerate and handleMint inside the outer try.
WTrySites == {"gen", "upload", "prepare", "send", "receipt", "record"}

\* Await points inside the inner try of handleMint (the notification).
WInnerTrySites == {"notify"}

\* handleMint without the inner try around the notification.
WCatchRethrowsNotification(r, site, message) ==
    [r EXCEPT !.error = message, !.mintStatus = "error", !.pc = "none",
              !.att.failed = TRUE]

\* A throw at an await point of handleGenerate / handleMint: the inner catch
\* logs, the outer catch sets error and mintStatus, anything else escapes.
WCatch(r, site, message) ==
    IF site \in WInnerTrySites THEN [r EXCEPT !.pc = "none", !.att.failed = TRUE]
    ELSE IF site \in WTrySites
    THEN [r EXCEPT !.error = message, !.mintStatus = "error", !.pc = "none",
                   !.att.failed = TRUE]
    ELSE [r EXCEPT !.escaped = TRUE, !.pc = "none"]

\* checkStatus effect, up to its fetch: it runs in the commit that sets fid.
checkStatusStart(r) ==
    IF r.fid = 0 THEN r
    ELSE [r EXCEPT !.mintStatus = "checking", !.ck = "fetching"]

\* initFarcaster effect: sdk.context gives the user, or nothing is set.
InitFarcaster(s) ==
    /\ w[s].sdk = "pending"
    /\ \/ \E f \in Fids, p \in BOOLEAN :
            w' = [w EXCEPT ![s] =
                    checkStatusStart([@ EXCEPT !.sdk = "done", !.fid = f,
                                               !.pfpUrl = p])]
       \/ w' = [w EXCEPT ![s] = [@ EXCEPT !.sdk = "done"]]
    /\ UNCHANGED <<chain, minted_nfts, minted_fid, h, call, notification_tokens, ac>>

\* useAccount: the wallet becomes connected.
WConnect(s) ==
    /\ w[s].sdk # "unmounted"
    /\ ~w[s].isConnected
    /\ w' = [w EXCEPT ![s] = [@ EXCEPT !.isConnected = TRUE]]
    /\ UNCHANGED <<chain, minted_nfts, minted_fid, h, call, notification_tokens, ac>>

\* checkStatus after its fetch, for the JSON `data` it received.
checkStatus(r, data) ==
    IF data.success
    THEN IF data.hasMinted /\ data.nft
         THEN [r EXCEPT !.ck = "done", !.hasMinted = data.hasMinted,
                        !.nftData = [present |-> TRUE, metadataIpfsUri |-> "ipfs://metadata"],
                        !.mintStatus = "success"]
         ELSE [r EXCEPT !.ck = "done", !.hasMinted = data.hasMinted,
                        !.mintStatus = "idle"]
    ELSE [r EXCEPT !.ck = "done"]

\* The fetch of checkStatus completes: the route's answer, an error answer
\* without success flag, or a rejection.
CheckStatusRespond(s) ==
    /\ w[s].ck = "fetching"
    /\ \/ \E q1 \in BOOLEAN, q2 \in BOOLEAN :
            w' = [w EXCEPT ![s] = checkStatus(@, CheckMintStatusRoute(w[s].fid, q1, q2))]
       \/ w' = [w EXCEPT ![s] =
                  checkStatus(@, [success |-> FALSE, hasMinted |-> FALSE, nft |-> FALSE])]
       \/ w' = [w EXCEPT ![s] = [@ EXCEPT !.ck = "done", !.mintStatus = "idle"]]
    /\ UNCHANGED <<chain, minted_nfts, minted_fid, h, call, notification_tokens, ac>>

\* analyzePFP effect: the extracted color, or the fallback.
Colors == {"#DC2626"}

AnalyzePFP(s) ==
    /\ w[s].pfpUrl
    /\ w[s].dominantColor = "null"
    /\ \E c \in Colors : w' = [w EXCEPT ![s] = [@ EXCEPT !.dominantColor = c]]
    /\ UNCHANGED <<chain, minted_nfts, minted_fid, h, call, notification_tokens, ac>>

\* The page renders its card (wallet connected and fid known) with the
\* action buttons.
WButtons(r) ==
    /\ r.isConnected
    /\ r.fid # 0
    /\ ~r.hasMinted
    /\ r.mintStatus # "checking"

\* The Generate button is rendered and enabled.
GenerateEnabled(r) ==
    /\ WButtons(r)
    /\ ~r.nftData.present
    /\ r.mintStatus \notin {"generating", "uploading"}
    /\ r.dominantColor # "null"

\* The Mint button without its disabled attribute.
MintEnabledNoMintingCheck(r) ==
    /\ WButtons(r)
    /\ r.nftData.present

\* The Mint button is rendered and enabled.
MintEnabled(r) ==
    /\ WButtons(r)
    /\ r.nftData.present
    /\ r.mintStatus # "minting"

\* handleGenerate up to its first await (the fetch of /api/generate-nft).
handleGenerateStart(r) ==
    IF r.fid = 0 \/ r.dominantColor = "null" THEN r
    ELSE [r EXCEPT !.error = "null", !.mintStatus = "generating", !.pc = "gen",
                   !.att = [NoAttempt EXCEPT !.gen = "pending"]]

\* handleGenerate from the answer genData to its second await (the fetch of
\* /api/compress-and-upload).
handleGenerateAfterGen(r, genData) ==
    IF ~genData.success
    THEN WCatch(r, "gen", IF genData.error # "" THEN genData.error
                          ELSE "Failed to generate NFT")
    ELSE [r EXCEPT !.mintStatus = "uploading", !.pc = "upload", !.att.upload = TRUE]

\* handleGenerate from the answer uploadData to its end.
handleGenerateAfterUpload(r, uploadData) ==
    IF ~uploadData.success
    THEN WCatch(r, "upload", IF uploadData.error # "" THEN uploadData.error
                             ELSE "Failed to upload")
    ELSE [r EXCEPT !.nftData = [present |-> TRUE,
                                metadataIpfsUri |-> uploadData.metadataIpfsUri],
                   !.mintStatus = "idle", !.pc = "none",
                   !.att.pinned = uploadData.metadataIpfsUri]

\* A click on the Generate button.
HandleGenerate(s) ==
    /\ GenerateEnabled(w[s])
    /\ w' = [w EXCEPT ![s] = handleGenerateStart(@)]
    /\ UNCHANGED <<chain, minted_nfts, minted_fid, h, call, notification_tokens, ac>>

\* What the image service did with one request.
GenOutcome(fluxThrew, images) ==
    IF fluxThrew THEN "threw" ELSE IF images = 0 THEN "zero" ELSE "ok"

\* The fetch of /api/generate-nft completes.
GenerateRespond(s) ==
    /\ w[s].pc = "gen"
    /\ \/ \E t \in Thrown :
            w' = [w EXCEPT ![s] = WCatch([@ EXCEPT !.att.gen = "threw"], "gen", ErrMessage(t))]
       \/ \E fluxThrew \in BOOLEAN, images \in 0..MaxImages :
            w' = [w EXCEPT ![s] =
                    handleGenerateAfterGen(
                        [@ EXCEPT !.att.gen = GenOutcome(fluxThrew, images)],
                        GenerateNftRoute(w[s].fid, w[s].dominantColor, fluxThrew, images))]
    /\ UNCHANGED <<chain, minted_nfts, minted_fid, h, call, notification_tokens, ac>>

\* The fetch of /api/compress-and-upload completes.
UploadRespond(s) ==
    /\ w[s].pc = "upload"
    /\ \/ \E t \in Thrown : w' = [w EXCEPT ![s] = WCatch(@, "upload", ErrMessage(t))]
       \/ \E pinned \in BOOLEAN :
            w' = [w EXCEPT ![s] =
                    handleGenerateAfterUpload(@, CompressAndUploadRoute(w[s].fid, pinned))]
    /\ UNCHANGED <<chain, minted_nfts, minted_fid, h, call, notification_tokens, ac>>

\* handleMint up to its first await (walletClient.sendTransaction).
handleMintStart(r) ==
    IF ~r.nftData.present \/ r.fid = 0 \/ ~r.isConnected THEN r
    ELSE IF r.nftData.metadataIpfsUri = ""
    THEN WCatch([r EXCEPT !.error = "null", !.mintStatus = "minting"], "prepare",
                "Metadata IPFS URI is missing")
    ELSE [r EXCEPT !.error = "null", !.mintStatus = "minting", !.pc = "send",
                   !.att = [@ EXCEPT !.tx = TRUE, !.confirmed = FALSE,
                                     !.recorded = FALSE, !.failed = FALSE]]

\* handleMint from the receipt to its third await (the fetch of
\* /api/record-mint).
handleMintAfterReceipt(r, status) ==
    IF status # "success"
    THEN WCatch(r, "receipt", "Transaction failed on-chain")
    ELSE [r EXCEPT !.pc = "record", !.att.confirmed = TRUE]

\* handleMint from the answer of /api/record-mint, which it does not read,
\* to its fourth await (the fetch of /api/send-notification).
handleMintAfterRecord(r) ==
    [r EXCEPT !.mintStatus = "success", !.hasMinted = TRUE, !.pc = "notify"]

\* A click on the Mint button.
HandleMint(s) ==
    /\ MintEnabled(w[s])
    /\ w' = [w EXCEPT ![s] = handleMintStart(@)]
    /\ UNCHANGED <<chain, minted_nfts, minted_fid, h, call, notification_tokens, ac>>

\* prepareMintTransaction(address, fid, metadataIpfsUri): the payment sent.
PrepareMintValue == MINT_FEE

\* walletClient.sendTransaction completes: rejected, or the transaction is
\* mined and the contract executes mint.
SendTransaction(s) ==
    /\ w[s].pc = "send"
    /\ \/ /\ \E t \in Thrown : w' = [w EXCEPT ![s] = WCatch(@, "send", ErrMessage(t))]
          /\ UNCHANGED chain
       \/ /\ Mint(w[s].fid, w[s].nftData.metadataIpfsUri, PrepareMintValue)
          /\ w' = [w EXCEPT ![s] =
                     [@ EXCEPT !.pc = "receipt",
                               !.txUri = w[s].nftData.metadataIpfsUri,
                               !.txPrior = chain.farcasterIdToTokenId[w[s].fid] # 0,
                               !.txResult =
                                   MintRevert(w[s].fid, w[s].nftData.metadataIpfsUri,
                                              PrepareMintValue)]]
    /\ UNCHANGED <<minted_nfts, minted_fid, h, call, notification_tokens, ac>>

\* receipt.status of a mined transaction.
ReceiptStatus(result) == IF result = "ok" THEN "success" ELSE "reverted"

\* publicClient.waitForTransactionReceipt completes: it throws, or gives the
\* receipt of the mined transaction.
WaitForReceipt(s) ==
    /\ w[s].pc = "receipt"
    /\ \/ \E t \in Thrown : w' = [w EXCEPT ![s] = WCatch(@, "receipt", ErrMessage(t))]
       \/ w' = [w EXCEPT ![s] = handleMintAfterReceipt(@, ReceiptStatus(w[s].txResult))]
    /\ UNCHANGED <<chain, minted_nfts, minted_fid, h, call, notification_tokens, ac>>

\* The fetch of /api/record-mint completes: the request fails, or the route
\* runs and answers (200, 400 or 500).
RecordMint(s) ==
    /\ w[s].pc = "record"
    /\ \/ /\ \E t \in Thrown : w' = [w EXCEPT ![s] = WCatch(@, "record", ErrMessage(t))]
          /\ UNCHANGED minted_nfts
       \/ \E dbOk \in BOOLEAN :
            /\ minted_nfts' = RecordMintRoute(w[s].fid, w[s].nftData.metadataIpfsUri, dbOk)
            /\ w' = [w EXCEPT ![s] =
                       handleMintAfterRecord(
                           [@ EXCEPT !.att.recorded =
                               recordMintInserts(w[s].fid, dbOk)])]
    /\ UNCHANGED <<chain, minted_fid, h, call, notification_tokens, ac>>

\* The fetch of /api/send-notification completes, or fails.
SendNotification(s) ==
    /\ w[s].pc = "notify"
    /\ \/ \E t \in Thrown : w' = [w EXCEPT ![s] = WCatch(@, "notify", ErrMessage(t))]
       \/ w' = [w EXCEPT ![s] = [@ EXCEPT !.pc = "none"]]
    /\ UNCHANGED <<chain, minted_nfts, minted_fid, h, call, notification_tokens, ac>>

WStep(s) ==
    \/ InitFarcaster(s)
    \/ WConnect(s)
    \/ CheckStatusRespond(s)
    \/ AnalyzePFP(s)
    \/ HandleGenerate(s)
    \/ GenerateRespond(s)
    \/ UploadRespond(s)
    \/ HandleMint(s)
    \/ SendTransaction(s)
    \/ WaitForReceipt(s)
    \/ RecordMint(s)
    \/ SendNotification(s)

\* ------------------------------------- useWinterCheerMint, MintInterface
Steps == {"idle", "analyzing", "generating", "uploading", "minting", "success", "error"}

\* useState initial value of mintState.
MintStateInit ==
    [step |-> "idle", message |-> "", progress |-> 0, traits |-> <<>>,
     previewImageUrl |-> FALSE, txHash |-> FALSE, tokenId |-> FALSE,
     error |-> "null"]

\* useState initial values of the hook, plus the position of its effects
\* (ctx, hck) and of the running mintNFT (pc).
HInit ==
    [ctx |-> "pending", fid |-> 0, pfpUrl |-> FALSE, isConnected |-> FALSE,
     address |-> FALSE, walletClient |-> FALSE, spaceConnected |-> FALSE,
     hck |-> "none", hasAlreadyMinted |-> FALSE, mintState |-> MintStateInit,
     pc |-> "none", txResult |-> "none", txPrior |-> FALSE, txUri |-> "",
     att |-> NoAttempt, escaped |-> FALSE]

\* error instanceof Error ? error.message : 'Unknown error occurred'
HErrMessage(t) ==
    IF t = "NonError" THEN "Unknown error occurred" ELSE ErrMessage(t)

\* Await points and calls of mintNFT inside its try.
HTrySites == {"analyze", "gen", "blob", "upload", "send", "receipt"}

\* A throw at a point of mintNFT: the catch sets step and error, anything
\* outside the try escapes.
HCatch(r, site, message) ==
    IF site \in HTrySites
    THEN [r EXCEPT !.mintState = [@ EXCEPT !.step = "error", !.error = message],
                   !.pc = "none", !.att.failed = TRUE]
    ELSE [r EXCEPT !.escaped = TRUE, !.pc = "none"]

\* The effect that calls the checkFidMinted reducer once the connection
\* and the fid are there.
checkFidMintedEffect(r) ==
    IF r.spaceConnected /\ r.fid # 0 /\ r.hck = "none"
    THEN [r EXCEPT !.hck = "called"]
    ELSE r

\* loadFarcasterContext effect.
LoadFarcasterContext ==
    /\ h.ctx = "pending"
    /\ \/ \E f \in Fids, p \in BOOLEAN :
            h' = checkFidMintedEffect([h EXCEPT !.ctx = "done", !.fid = f, !.pfpUrl = p])
       \/ h' = [h EXCEPT !.ctx = "done"]
    /\ UNCHANGED <<chain, minted_nfts, minted_fid, w, call, notification_tokens, ac>>

\* useAccount: the wallet becomes connected, with its address.
HConnect ==
    /\ h.ctx # "unmounted"
    /\ ~h.isConnected
    /\ h' = [h EXCEPT !.isConnected = TRUE, !.address = TRUE]
    /\ UNCHANGED <<chain, minted_nfts, minted_fid, w, call, notification_tokens, ac>>

\* useWalletClient: the client of the connected wallet is loaded.
WalletClientReady ==
    /\ h.isConnected
    /\ ~h.walletClient
    /\ h' = [h EXCEPT !.walletClient = TRUE]
    /\ UNCHANGED <<chain, minted_nfts, minted_fid, w, call, notification_tokens, ac>>

\* onConnect of the SpacetimeDB connection.
SpaceConnect ==
    /\ h.ctx # "unmounted"
    /\ ~h.spaceConnected
    /\ h' = checkFidMintedEffect([h EXCEPT !.spaceConnected = TRUE])
    /\ UNCHANGED <<chain, minted_nfts, minted_fid, w, call, notification_tokens, ac>>

\* checkResult: the mint_check_status row of the fid has arrived.
CheckResult ==
    /\ h.hck = "called"
    /\ h' = [h EXCEPT !.hck = "done", !.hasAlreadyMinted = (h.fid \in minted_fid)]
    /\ UNCHANGED <<chain, minted_nfts, minted_fid, w, call, notification_tokens, ac>>

\* isLoading of MintInterface.
IsLoading(r) == r.mintState.step \in {"analyzing", "generating", "uploading", "minting"}

\* The Mint button without isLoading in its disabled attribute.
MintButtonEnabledNoLoadingCheck(r) ==
    /\ ~r.hasAlreadyMinted
    /\ r.mintState.step # "success"
    /\ r.isConnected
    /\ r.fid # 0
    /\ r.spaceConnected

\* The Mint button of MintInterface is rendered and enabled.
MintButtonEnabled(r) ==
    /\ ~r.hasAlreadyMinted
    /\ r.mintState.step # "success"
    /\ r.isConnected
    /\ r.fid # 0
    /\ ~IsLoading(r)
    /\ r.spaceConnected

\* The first guard of mintNFT.
MintNFTValid(r) ==
    r.isConnected /\ r.address /\ r.walletClient /\ r.fid # 0 /\ r.pfpUrl

\* mintNFT without its first guard.
mintNFTNoValidation(r) ==
    IF r.hasAlreadyMinted
    THEN [r EXCEPT !.mintState.error = "FID has already minted a Winter Cheer NFT"]
    ELSE [r EXCEPT !.mintState =
                       [step |-> "analyzing",
                        message |-> "Analyzing your profile picture...",
                        progress |-> 10, traits |-> <<>>, previewImageUrl |-> FALSE,
                        txHash |-> FALSE, tokenId |-> FALSE, error |-> "null"],
                   !.pc = "analyze", !.att = NoAttempt]

\* mintNFT up to its first await (analyzePfpColor).
mintNFT(r) ==
    IF ~MintNFTValid(r)
    THEN [r EXCEPT !.mintState.error =
                       "Please connect wallet and ensure Farcaster context is loaded"]
    ELSE IF r.hasAlreadyMinted
    THEN [r EXCEPT !.mintState.error = "FID has already minted a Winter Cheer NFT"]
    ELSE [r EXCEPT !.mintState =
                       [step |-> "analyzing",
                        message |-> "Analyzing your profile picture...",
                        progress |-> 10, traits |-> <<>>, previewImageUrl |-> FALSE,
                        txHash |-> FALSE, tokenId |-> FALSE, error |-> "null"],
                   !.pc = "analyze", !.att = NoAttempt]

\* A click on the Mint button.
MintNFT ==
    /\ MintButtonEnabled(h)
    /\ h' = mintNFT(h)
    /\ UNCHANGED <<chain, minted_nfts, minted_fid, w, call, notification_tokens, ac>>

\* The colors analyzePfpColor and adjustColorForWinter return.
HookColors == {"#DC2626", "#1e40af"}

\* useState('Male'), the gender mintNFT passes on.
selectedGender == "Male"

\* mintNFT from the color to its second await (generateNFTImage): the
\* traits of the identifier, the gender and colorAnalysis.dominantColor,
\* their outfitColor then assigned the adjusted color.
mintNFTAfterAnalyze(r, colorAnalysis, adjustedColor) ==
    LET traits == [generateTraits(r.fid, selectedGender, colorAnalysis.dominantColor)
                       EXCEPT !.outfitColor = adjustedColor]
    IN  [r EXCEPT !.mintState = [@ EXCEPT !.step = "generating",
                                          !.message = "Creating your unique character with AI...",
                                          !.progress = 40, !.traits = <<traits>>],
                  !.pc = "gen", !.att.gen = "pending"]

\* analyzePfpColor completes.
AnalyzeRespond ==
    /\ h.pc = "analyze"
    /\ \/ \E t \in Thrown : h' = HCatch(h, "analyze", HErrMessage(t))
       \/ \E hexColor \in HookColors, adjustedColor \in HookColors :
              h' = mintNFTAfterAnalyze(h, [hexColor |-> hexColor, dominantColor |-> hexColor],
                                       adjustedColor)
    /\ UNCHANGED <<chain, minted_nfts, minted_fid, w, call, notification_tokens, ac>>

\* generateNFTImage after fluxproFetchImages: "ok", or what it throws.
generateNFTImage(images) ==
    IF images = 0 THEN "No images generated" ELSE "ok"

\* mintNFT from the generated image to its third await
\* (pinataUploadImageWithMetadata); dataUrlToBlob throws on an image that
\* is no data URL.
mintNFTAfterGenerate(r, isDataUrl, t) ==
    LET r1 == [r EXCEPT !.mintState = [@ EXCEPT !.step = "uploading",
                                                !.message = "Uploading to IPFS...",
                                                !.progress = 70,
                                                !.previewImageUrl = TRUE]]
    IN  IF ~isDataUrl THEN HCatch(r1, "blob", HErrMessage(t))
        ELSE [r1 EXCEPT !.pc = "upload", !.att.upload = TRUE]

\* generateNFTImage completes.
HGenerateRespond ==
    /\ h.pc = "gen"
    /\ \/ \E t \in Thrown :
            h' = HCatch([h EXCEPT !.att.gen = "threw"], "gen", HErrMessage(t))
       \/ \E images \in 0..MaxImages, isDataUrl \in BOOLEAN, t \in Thrown :
            LET r == [h EXCEPT !.att.gen = GenOutcome(FALSE, images)] IN
            h' = IF generateNFTImage(images) # "ok"
                 THEN HCatch(r, "gen", generateNFTImage(images))
                 ELSE mintNFTAfterGenerate(r, isDataUrl, t)
    /\ UNCHANGED <<chain, minted_nfts, minted_fid, w, call, notification_tokens, ac>>

\* mintNFT from the pinning result to its fourth await (sendTransaction).
mintNFTAfterUpload(r, metadataUri) ==
    [r EXCEPT !.mintState = [@ EXCEPT !.step = "minting",
                                      !.message = "Minting your NFT on Base...",
                                      !.progress = 85],
              !.pc = "send", !.att.tx = TRUE, !.att.pinned = metadataUri]

\* pinataUploadImageWithMetadata completes.
HUploadRespond ==
    /\ h.pc = "upload"
    /\ \/ \E t \in Thrown : h' = HCatch(h, "upload", HErrMessage(t))
       \/ h' = mintNFTAfterUpload(h, PinnedUri)
    /\ UNCHANGED <<chain, minted_nfts, minted_fid, w, call, notification_tokens, ac>>

\* walletClient.sendTransaction completes: rejected, or the transaction
\* prepareMintTransaction(address, fid) built is mined.
HSendTransaction ==
    /\ h.pc = "send"
    /\ \/ /\ \E t \in Thrown : h' = HCatch(h, "send", HErrMessage(t))
          /\ UNCHANGED chain
       \/ \E uri \in Uris :
            /\ Mint(h.fid, uri, PrepareMintValue)
            /\ h' = [h EXCEPT !.mintState = [@ EXCEPT !.message = "Waiting for confirmation...",
                                                      !.progress = 90],
                              !.pc = "receipt",
                              !.txUri = uri,
                              !.txPrior = chain.farcasterIdToTokenId[h.fid] # 0,
                              !.txResult = MintRevert(h.fid, uri, PrepareMintValue)]
    /\ UNCHANGED <<minted_nfts, minted_fid, w, call, notification_tokens, ac>>

\* mintNFT from the resolved waitForTransactionReceipt, whose receipt it
\* does not read, to its end; connectionRef.current is the connection.
mintNFTAfterReceipt(r) ==
    [r EXCEPT !.mintState = [step |-> "success", message |-> "NFT minted successfully!",
                             progress |-> 100, traits |-> r.mintState.traits, previewImageUrl |-> TRUE,
                             txHash |-> TRUE, tokenId |-> TRUE, error |-> "null"],
              !.pc = "none",
              !.att.confirmed = (ReceiptStatus(r.txResult) = "success"),
              !.att.recorded = r.spaceConnected]

\* The recordNewMint and saveNftMetadata reducers: the table afterwards.
recordNewMint(fid) == minted_fid \cup {fid}

\* publicClient.waitForTransactionReceipt completes: it throws, or gives the
\* receipt of the mined transaction.
HWaitForReceipt ==
    /\ h.pc = "receipt"
    /\ \/ /\ \E t \in Thrown : h' = HCatch(h, "receipt", HErrMessage(t))
          /\ UNCHANGED minted_fid
       \/ /\ h' = mintNFTAfterReceipt(h)
          /\ minted_fid' = IF h.spaceConnected THEN recordNewMint(h.fid) ELSE minted_fid
    /\ UNCHANGED <<chain, minted_nfts, w, call, notification_tokens, ac>>

\* Another client of the SpacetimeDB module records a mint, while the
\* MintInterface page (the only reader of the table) is rendered.
OtherClientRecord ==
    /\ h.ctx # "unmounted"
    /\ \E f \in Fids : minted_fid' = recordNewMint(f)
    /\ UNCHANGED <<chain, minted_nfts, w, h, call, notification_tokens, ac>>

\* Another session of the app posts to /api/record-mint, while a
\* WinterCheerMint page (the only reader of the table) is rendered.
OtherSessionRecordMint ==
    /\ \E s \in WSessions : w[s].sdk # "unmounted"
    /\ \E f \in Fids, dbOk \in BOOLEAN :
         minted_nfts' = RecordMintRoute(f, "ipfs://metadata", dbOk)
    /\ UNCHANGED <<chain, minted_fid, w, h, call, notification_tokens, ac>>

HStep ==
    \/ LoadFarcasterContext
    \/ HConnect
    \/ WalletClientReady
    \/ SpaceConnect
    \/ CheckResult
    \/ MintNFT
    \/ AnalyzeRespond
    \/ HGenerateRespond
    \/ HUploadRespond
    \/ HSendTransaction
    \/ HWaitForReceipt

\* ------------------------------------------- calls of trait-generator

\* The identifiers, genders and colors generateTraits is called with.
TraitFids == 0..MaxTraitFid
Genders == {"Male", "Female"}
TraitColors == {"#DC2626", "#ff2626", "#1e40af"}

\* The bodies of the requests to POST /api/generate-nft: each of the three
\* fields is present or absent (has* FALSE: undefined after destructuring).
GenerateNftBodies ==
    [hasFid : BOOLEAN, fid : TraitFids,
     hasGender : BOOLEAN, gender : Genders,
     hasDominantColor : BOOLEAN, dominantColor : TraitColors]

\* POST /api/generate-nft for a request body: `!fid || !gender ||
\* !dominantColor` answers 400, and !fid holds of an absent fid and of 0;
\* otherwise the traits are generated and the image service decides.
GenerateNftPOST(body, fluxThrew, images) ==
    IF \/ ~body.hasFid \/ body.fid = 0
       \/ ~body.hasGender
       \/ ~body.hasDominantColor
    THEN [status |-> 400, error |-> "Missing required fields: fid, gender, dominantColor",
          traits |-> <<>>]
    ELSE LET traits == generateTraits(body.fid, body.gender, body.dominantColor) IN
         IF fluxThrew
         THEN [status |-> 500, error |-> "Failed to generate NFT: external failure",
               traits |-> <<>>]
         ELSE IF images = 0
         THEN [status |-> 500, error |-> "Failed to generate NFT: No images generated",
               traits |-> <<>>]
         ELSE [status |-> 200, error |-> "", traits |-> <<traits>>]

\* A request to POST /api/generate-nft.
CallGenerateNft ==
    /\ call = NoCall
    /\ \E body \in GenerateNftBodies, fluxThrew \in BOOLEAN, images \in 0..MaxImages :
         call' = [op  |-> "generateNft",
                  in  |-> [body |-> body, fluxThrew |-> fluxThrew, images |-> images],
                  out |-> GenerateNftPOST(body, fluxThrew, images)]
    /\ UNCHANGED <<chain, minted_nfts, minted_fid, w, h, notification_tokens, ac>>

\* The TraitSets traitsToAttributes is called with: those generateTraits
\* returns and those whose outfit color was assigned afterwards.
TraitSets ==
    {[generateTraits(fid, gender, dominantColor) EXCEPT !.outfitColor = outfitColor] :
        fid \in TraitFids, gender \in Genders,
        dominantColor \in TraitColors, outfitColor \in TraitColors}

\* A call of traitsToAttributes.
CallTraitsToAttributes ==
    /\ call = NoCall
    /\ \E traits \in TraitSets :
         call' = [op  |-> "traitsToAttributes",
                  in  |-> traits,
                  out |-> traitsToAttributes(traits)]
    /\ UNCHANGED <<chain, minted_nfts, minted_fid, w, h, notification_tokens, ac>>

\* A call of generateTraits.
CallGenerateTraits ==
    /\ call = NoCall
    /\ \E fid \in TraitFids, gender \in Genders, dominantColor \in TraitColors :
         call' = [op  |-> "generateTraits",
                  in  |-> [fid |-> fid, gender |-> gender, dominantColor |-> dominantColor],
                  out |-> generateTraits(fid, gender, dominantColor)]
    /\ UNCHANGED <<chain, minted_nfts, minted_fid, w, h, notification_tokens, ac>>

\* ---------------------------------------------------------- pfp-analyzer
\* Number.prototype.toString(16) of 0..15, and the digits [a-f\d] accepts
\* under the i flag.
HexDigits == <<"0", "1", "2", "3", "4", "5", "6", "7", "8", "9",
               "a", "b", "c", "d", "e", "f">>
UpperHexDigits == <<"0", "1", "2", "3", "4", "5", "6", "7", "8", "9",
                    "A", "B", "C", "D", "E", "F">>

IsHexDigit(c) == \E i \in 1..16 : HexDigits[i] = c \/ UpperHexDigits[i] = c

\* parseInt of one hexadecimal digit.
HexValue(c) == (CHOOSE i \in 1..16 : HexDigits[i] = c \/ UpperHexDigits[i] = c) - 1

\* The string literal '#DC2626', character by character.
DefaultColor == <<"#", "D", "C", "2", "6", "2", "6">>

\* hexToRgb: the regex /^#?([a-f\d]{2})([a-f\d]{2})([a-f\d]{2})$/i and
\* parseInt(.., 16); match is FALSE for its null.
hexToRgb(hex) ==
    LET d == IF Len(hex) = 7 /\ hex[1] = "#" THEN Tail(hex) ELSE hex IN
    IF Len(d) = 6 /\ \A i \in 1..6 : IsHexDigit(d[i])
    THEN [match |-> TRUE,
          r |-> 16 * HexValue(d[1]) + HexValue(d[2]),
          g |-> 16 * HexValue(d[3]) + HexValue(d[4]),
          b |-> 16 * HexValue(d[5]) + HexValue(d[6])]
    ELSE [match |-> FALSE, r |-> 0, g |-> 0, b |-> 0]

\* rgbToHex, for integers 0..255: x.toString(16).padStart(2, '0').
rgbToHex(r, g, b) ==
    <<"#", HexDigits[(r \div 16) + 1], HexDigits[(r % 16) + 1],
           HexDigits[(g \div 16) + 1], HexDigits[(g % 16) + 1],
           HexDigits[(b \div 16) + 1], HexDigits[(b % 16) + 1]>>

\* Math.round(n / d) for n >= 0, d > 0.
Round(n, d) == (2 * n + d) \div (2 * d)

Min2(a, b) == IF a < b THEN a ELSE b
Max3(a, b, c) == IF a >= b /\ a >= c THEN a ELSE IF b >= c THEN b ELSE c
Min3(a, b, c) == IF a <= b /\ a <= c THEN a ELSE IF b <= c THEN b ELSE c

\* enhanceColorForChristmas: Math.min(255, Math.round(x + (x - min) * 1.3)).
enhanceColorForChristmas(hex) ==
    LET rgb == hexToRgb(hex) IN
    IF ~rgb.match THEN hex
    ELSE LET max == Max3(rgb.r, rgb.g, rgb.b)
             min == Min3(rgb.r, rgb.g, rgb.b)
             boost(x) == Min2(255, Round(10 * x + 13 * (x - min), 10))
         IN  IF max - min = 0 THEN DefaultColor
             ELSE rgbToHex(boost(rgb.r), boost(rgb.g), boost(rgb.b))

\* RGBA pixels of the sampled area of a profile picture.
Palette ==
    {<<0, 0, 0, 0>>, <<255, 255, 255, 127>>, <<220, 38, 38, 255>>,
     <<128, 128, 128, 255>>, <<10, 20, 200, 128>>}

RECURSIVE PixelSeqs(_)
PixelSeqs(n) ==
    IF n = 0 THEN {<<>>}
    ELSE LET shorter == PixelSeqs(n - 1) IN
         shorter \cup {Append(q, p) : q \in {x \in shorter : Len(x) = n - 1}, p \in Palette}

\* The pixels that are not skipped: alpha >= 128.
Opaque(pixels) == SelectSeq(pixels, LAMBDA p : p[4] >= 128)

\* analyzePFP after getImageData: the 32-wide color buckets, the most
\* common one (the first inserted among equals, '220,38,38' when there is
\* none), rgbToHex and enhanceColorForChristmas.
analyzePFPDominant(pixels) ==
    LET o == Opaque(pixels)
        key(i) == <<(o[i][1] \div 32) * 32, (o[i][2] \div 32) * 32, (o[i][3] \div 32) * 32>>
        count(i) == Cardinality({j \in 1..Len(o) : key(j) = key(i)})
        best == CHOOSE i \in 1..Len(o) :
                    /\ \A j \in 1..Len(o) : count(j) <= count(i)
                    /\ \A j \in 1..(i - 1) : count(j) < count(i)
        dominantColor == IF Len(o) = 0 THEN <<220, 38, 38>> ELSE key(best)
    IN  enhanceColorForChristmas(
            rgbToHex(dominantColor[1], dominantColor[2], dominantColor[3]))

\* What can happen inside analyzePFP's try.
AnalyzePFPKinds == {"fetchThrows", "notOk", "bitmapThrows", "noContext", "pixels"}

\* analyzePFP(imageUrl): the color it resolves with; its catch returns the
\* default for everything thrown inside.
analyzePFP(in) ==
    CASE in.kind \in {"fetchThrows", "bitmapThrows"} -> DefaultColor
      [] in.kind = "notOk"     -> DefaultColor
      [] in.kind = "noContext" -> DefaultColor
      [] in.kind = "pixels"    -> analyzePFPDominant(in.pixels)

RECURSIVE SumChannel(_, _)
SumChannel(o, c) == IF o = <<>> THEN 0 ELSE Head(o)[c] + SumChannel(Tail(o), c)

\* analyzePFPClient's onload after getImageData: the average of the opaque
\* pixels, rgbToHex and enhanceColorForChristmas.
analyzePFPClientAverage(pixels) ==
    LET o == Opaque(pixels)
        count == Len(o)
    IN  IF count = 0 THEN DefaultColor
        ELSE enhanceColorForChristmas(
                 rgbToHex(Round(SumChannel(o, 1), count), Round(SumChannel(o, 2), count),
                          Round(SumChannel(o, 3), count)))

\* What can happen to the Image of analyzePFPClient.
AnalyzePFPClientKinds == {"loadError", "noContext", "drawThrows", "pixels"}

\* analyzePFPClient(imageUrl): the color its promise resolves with.
analyzePFPClient(in) ==
    CASE in.kind = "loadError"  -> DefaultColor
      [] in.kind = "noContext"  -> DefaultColor
      [] in.kind = "drawThrows" -> DefaultColor
      [] in.kind = "pixels"     -> analyzePFPClientAverage(in.pixels)

\* The inputs of one kind: only "pixels" carries pixels.
PfpInputs(kinds) ==
    {[kind |-> k, pixels |-> <<>>] : k \in kinds \ {"pixels"}}
        \cup {[kind |-> "pixels", pixels |-> q] : q \in PixelSeqs(MaxPixels)}

\* A call of analyzePFP.
CallAnalyzePFP ==
    /\ call = NoCall
    /\ \E in \in PfpInputs(AnalyzePFPKinds) :
         call' = [op |-> "analyzePFP", in |-> in, out |-> analyzePFP(in)]
    /\ UNCHANGED <<chain, minted_nfts, minted_fid, w, h, notification_tokens, ac>>

\* A call of analyzePFPClient.
CallAnalyzePFPClient ==
    /\ call = NoCall
    /\ \E in \in PfpInputs(AnalyzePFPClientKinds) :
         call' = [op |-> "analyzePFPClient", in |-> in, out |-> analyzePFPClient(in)]
    /\ UNCHANGED <<chain, minted_nfts, minted_fid, w, h, notification_tokens, ac>>

\* ---------------------------------------- trait-generator, hexToColorName
\* hex.replace('#', ''): the string without its first '#'.
CleanHex(hex) ==
    IF \E i \in 1..Len(hex) : hex[i] = "#"
    THEN LET i == CHOOSE i \in 1..Len(hex) :
                      hex[i] = "#" /\ \A j \in 1..(i - 1) : hex[j] # "#"
         IN  SubSeq(hex, 1, i - 1) \o SubSeq(hex, i + 1, Len(hex))
    ELSE hex

\* The HSL values hexToColorName computes from '#rrggbb', as fractions: the
\* lightness is lN / 510, the saturation sN / sD and the hue hN / hD
\* degrees (0 / 1 for a color without hue).
HexToHsl(hex) ==
    LET cleanHex == CleanHex(hex)
        r == 16 * HexValue(cleanHex[1]) + HexValue(cleanHex[2])
        g == 16 * HexValue(cleanHex[3]) + HexValue(cleanHex[4])
        b == 16 * HexValue(cleanHex[5]) + HexValue(cleanHex[6])
        max == Max3(r, g, b)
        min == Min3(r, g, b)
        delta == max - min
    IN  IF delta = 0
        THEN [lN |-> max + min, sN |-> 0, sD |-> 1, hN |-> 0, hD |-> 1]
        ELSE [lN |-> max + min,
              sN |-> delta,
              sD |-> IF max + min > 255 THEN 510 - max - min ELSE max + min,
              hN |-> IF max = r THEN 60 * (g - b) + (IF g < b THEN 360 * delta ELSE 0)
                     ELSE IF max = g THEN 60 * (b - r) + 120 * delta
                     ELSE 60 * (r - g) + 240 * delta,
              hD |-> delta]

\* The hue family of a hue that either is below 15 or is none of the chain.
colorFamilyRedOnly(hN, hD) ==
    IF hN < 15 * hD THEN "red"
    ELSE IF hN < 45 * hD THEN "orange-red"
    ELSE IF hN < 70 * hD THEN "orange"
    ELSE IF hN < 90 * hD THEN "yellow-orange"
    ELSE IF hN < 150 * hD THEN "yellow-green"
    ELSE IF hN < 170 * hD THEN "green"
    ELSE IF hN < 200 * hD THEN "cyan-green"
    ELSE IF hN < 220 * hD THEN "cyan"
    ELSE IF hN < 250 * hD THEN "blue"
    ELSE IF hN < 280 * hD THEN "purple-blue"
    ELSE IF hN < 310 * hD THEN "purple"
    ELSE IF hN < 330 * hD THEN "magenta"
    ELSE ""

\* The chain of hue comparisons of hexToColorName.
colorFamily(hN, hD) ==
    IF hN < 15 * hD \/ hN >= 345 * hD THEN "red"
    ELSE IF hN < 45 * hD THEN "orange-red"
    ELSE IF hN < 70 * hD THEN "orange"
    ELSE IF hN < 90 * hD THEN "yellow-orange"
    ELSE IF hN < 150 * hD THEN "yellow-green"
    ELSE IF hN < 170 * hD THEN "green"
    ELSE IF hN < 200 * hD THEN "cyan-green"
    ELSE IF hN < 220 * hD THEN "cyan"
    ELSE IF hN < 250 * hD THEN "blue"
    ELSE IF hN < 280 * hD THEN "purple-blue"
    ELSE IF hN < 310 * hD THEN "purple"
    ELSE IF hN < 330 * hD THEN "magenta"
    ELSE "pink-red"

\* What the rounding of a double adds to a value: nothing where the value
\* differs from what it is compared with, and either side of a value that
\* equals it.
Roundings == {-1, 0, 1}

\* hexToColorName(hex) for a color of six hexadecimal digits; el, es and eh
\* are the roundings of the lightness, the saturation and the hue, added
\* to twice each value so that they decide a comparison of equal values
\* and no other.
hexToColorName(hex, el, es, eh) ==
    LET c == HexToHsl(hex)
        l == 2 * 10 * c.lN + el
        s == 2 * 10 * c.sN + es
        brightness == IF l > 2 * 8 * 510 THEN "very light"
                      ELSE IF l > 2 * 6 * 510 THEN "light"
                      ELSE IF l > 2 * 4 * 510 THEN "medium"
                      ELSE IF l > 2 * 2 * 510 THEN "deep"
                      ELSE "very dark"
        saturation == IF s > 2 * 8 * c.sD THEN "vivid"
                      ELSE IF s > 2 * 5 * c.sD THEN "vibrant"
                      ELSE IF s > 2 * 2 * c.sD THEN "muted"
                      ELSE "pale"
    IN  IF s < 2 * c.sD
        THEN IF l > 2 * 9 * 510 THEN "pure white"
             ELSE IF l > 2 * 7 * 510 THEN "light gray"
             ELSE IF l > 2 * 5 * 510 THEN "medium gray"
             ELSE IF l > 2 * 3 * 510 THEN "dark gray"
             ELSE "black"
        ELSE saturation \o " " \o brightness \o " "
                 \o colorFamily(2 * c.hN + eh, 2 * c.hD)

\* The channel values of the colors hexToColorName is called with.
ChannelValues == {0, 51, 102, 110, 128, 153, 204, 255}

\* '#rrggbb' in upper case.
UpperHex(hex) ==
    [i \in 1..Len(hex) |-> IF hex[i] = "#" THEN "#" ELSE UpperHexDigits[HexValue(hex[i]) + 1]]

\* A call of hexToColorName.
CallHexToColorName ==
    /\ call = NoCall
    /\ \E r \in ChannelValues, g \in ChannelValues, b \in ChannelValues, upper \in BOOLEAN :
         LET hex == IF upper THEN UpperHex(rgbToHex(r, g, b)) ELSE rgbToHex(r, g, b) IN
         \E el \in Roundings, es \in Roundings, eh \in Roundings :
             call' = [op |-> "hexToColorName", in |-> hex,
                      out |-> hexToColorName(hex, el, es, eh)]
    /\ UNCHANGED <<chain, minted_nfts, minted_fid, w, h, notification_tokens, ac>>

\* ------------------------------------------------ send-notification route
\* const batchSize = 100
batchSize == 100

\* The notification URLs of the stored tokens.
NotificationUrls == <<"https://relay-a/notify", "https://relay-b/notify">>

\* n stored tokens, all of one notification URL or of the two in turn.
NotificationTokens(n, oneUrl) ==
    [i \in 1..n |-> [token |-> i,
                     notificationUrl |-> IF oneUrl \/ i % 2 = 1 THEN NotificationUrls[1]
                                         ELSE NotificationUrls[2]]]

\* The validation of POST without its test of the targetUrl length.
validateRequestNoUrlLength(body) ==
    IF body.title = 0 \/ body.body = 0 THEN "Title and body are required"
    ELSE IF body.notificationId = 0 THEN "notificationId is required for idempotency"
    ELSE IF body.targetUrl = 0 THEN "targetUrl is required"
    ELSE IF body.title > 32 THEN "Title must be max 32 characters"
    ELSE IF body.body > 128 THEN "Body must be max 128 characters"
    ELSE ""

\* The validation of POST, on the lengths of the four strings (0 for a
\* missing or empty one): the 400 answer's error, or "" when all pass.
validateRequest(body) ==
    IF body.title = 0 \/ body.body = 0 THEN "Title and body are required"
    ELSE IF body.notificationId = 0 THEN "notificationId is required for idempotency"
    ELSE IF body.targetUrl = 0 THEN "targetUrl is required"
    ELSE IF body.title > 32 THEN "Title must be max 32 characters"
    ELSE IF body.body > 128 THEN "Body must be max 128 characters"
    ELSE IF body.targetUrl > 1024 THEN "targetUrl must be max 1024 characters"
    ELSE ""

\* tokensToSend.slice(i, i + batchSize) for i = 0, batchSize, ...
Batches(tokensToSend) ==
    [k \in 1..((Len(tokensToSend) + batchSize - 1) \div batchSize) |->
        SubSeq(tokensToSend, (k - 1) * batchSize + 1,
               Min2(k * batchSize, Len(tokensToSend)))]

\* The requests POST sends for its batches: one per batch and notification
\* URL of the batch, with the tokens of that URL.
BatchRequests(body, batches) ==
    {[notificationUrl |-> NotificationUrls[u],
      payload |-> [notificationId |-> body.notificationId,
                   title |-> body.title,
                   body |-> body.body,
                   targetUrl |-> body.targetUrl,
                   tokens |-> SelectSeq([i \in 1..Len(batches[k]) |-> batches[k][i]],
                                        LAMBDA item : item.notificationUrl = NotificationUrls[u])],
      batch |-> k] :
        <<k, u>> \in {<<k, u>> \in (DOMAIN batches) \X (1..Len(NotificationUrls)) :
                        \E i \in 1..Len(batches[k]) :
                            batches[k][i].notificationUrl = NotificationUrls[u]}}

\* The outcomes of the relays: the notification URLs that answer ok, with
\* every token of the request in successfulTokens; the others answer with
\* a response that is not ok.
RelayOutcomes == SUBSET {NotificationUrls[u] : u \in 1..Len(NotificationUrls)}

\* successfulCount += successfulTokens.length for every fulfilled request
\* of the set.
RECURSIVE SuccessfulCount(_, _)
SuccessfulCount(requests, okUrls) ==
    IF requests = {} THEN 0
    ELSE LET req == CHOOSE req \in requests : TRUE
         IN  (IF req.notificationUrl \in okUrls THEN Len(req.payload.tokens) ELSE 0)
                + SuccessfulCount(requests \ {req}, okUrls)

\* failedCount += batch.length for every rejected request of the set.
RECURSIVE FailedCount(_, _, _)
FailedCount(requests, batches, okUrls) ==
    IF requests = {} THEN 0
    ELSE LET req == CHOOSE req \in requests : TRUE
         IN  (IF req.notificationUrl \in okUrls THEN 0 ELSE Len(batches[req.batch]))
                + FailedCount(requests \ {req}, batches, okUrls)

\* POST of /api/send-notification. stored is the result of the token
\* lookup (success, tokens) and okUrls the answer of the relays: every
\* token successful, or a response that is not ok.
sendNotification(body, stored, okUrls) ==
    IF validateRequest(body) # ""
    THEN [status |-> 400, success |-> FALSE, error |-> validateRequest(body),
          requests |-> {}, sent |-> 0, failed |-> 0, totalRecipients |-> 0]
    ELSE IF body.broadcast /\ ~stored.success
    THEN [status |-> 500, success |-> FALSE, error |-> "Failed to fetch active tokens",
          requests |-> {}, sent |-> 0, failed |-> 0, totalRecipients |-> 0]
    ELSE IF ~body.broadcast /\ body.fids = 0
    THEN [status |-> 400, success |-> FALSE,
          error |-> "Either broadcast must be true or fids array must be provided",
          requests |-> {}, sent |-> 0, failed |-> 0, totalRecipients |-> 0]
    ELSE LET tokensToSend == stored.tokens
             batches == Batches(tokensToSend)
             requests == BatchRequests(body, batches)
         IN  [status |-> 200, success |-> TRUE, error |-> "",
              requests |-> requests,
              sent |-> SuccessfulCount(requests, okUrls),
              failed |-> FailedCount(requests, batches, okUrls),
              totalRecipients |-> Len(tokensToSend)]

\* The lengths the strings of a request are given.
TitleLengths == {0, 1, 32, 33}
BodyLengths == {0, 1, 128, 129}
TargetUrlLengths == {0, 1, 1024, 1025}
NotificationIdLengths == {0, 1}

\* The numbers of tokens found for a request.
TokenCounts == {0, 1, batchSize, batchSize + 1, 2 * batchSize + 1}

\* A request to POST /api/send-notification; fids is the length of the
\* fids array (0 for none), of which found have a stored token.
CallSendNotification ==
    /\ call = NoCall
    /\ \E title \in TitleLengths, messageBody \in BodyLengths,
          targetUrl \in TargetUrlLengths, notificationId \in NotificationIdLengths,
          broadcast \in BOOLEAN, found \in TokenCounts, fids \in {0, 2 * batchSize + 1},
          oneUrl \in BOOLEAN, success \in BOOLEAN, okUrls \in RelayOutcomes :
         /\ ~broadcast => success /\ found <= fids
         /\ broadcast => fids = 0
         /\ ~success => found = 0 /\ oneUrl
         /\ LET body == [title |-> title, body |-> messageBody, targetUrl |-> targetUrl,
                         notificationId |-> notificationId, broadcast |-> broadcast,
                         fids |-> fids]
                stored == [success |-> success, tokens |-> NotificationTokens(found, oneUrl)]
            IN  call' = [op  |-> "sendNotification",
                         in  |-> [body |-> body, stored |-> stored, okUrls |-> okUrls],
                         out |-> sendNotification(body, stored, okUrls)]
    /\ UNCHANGED <<chain, minted_nfts, minted_fid, w, h, notification_tokens, ac>>

\* The forms of NotificationSender: the number of numeric fids entered and
\* the lengths of the trimmed title, of the body (the inputs stop at 50
\* and 200 characters) and of the optional target URL.
SenderForms ==
    [fids : {0, 1, 2}, title : {0, 1, 32, 33, 50}, body : {0, 1, 128, 129, 200},
     targetUrl : {0, 1}]

\* isFormValid together with the check of fidArray in handleSend.
isFormValid(form) == form.fids > 0 /\ form.title > 0 /\ form.body > 0

\* The body handleSend posts: fids, title, body and targetUrl (undefined
\* when empty); it has no notificationId and no broadcast flag.
handleSendRequest(form) ==
    [title |-> form.title, body |-> form.body, targetUrl |-> form.targetUrl,
     notificationId |-> 0, broadcast |-> FALSE, fids |-> form.fids]

\* NotificationSender.handleSend for a form whose button is enabled: no
\* request when no fid is numeric, else the request and what the route
\* answers when `found` of the fids have a stored token.
HandleSend ==
    /\ call = NoCall
    /\ \E form \in SenderForms, found \in {0, 1, 2}, okUrls \in RelayOutcomes :
         /\ form.title > 0 /\ form.body > 0
         /\ found <= form.fids
         /\ LET stored == [success |-> TRUE, tokens |-> NotificationTokens(found, TRUE)]
                body == handleSendRequest(form)
            IN  call' = [op  |-> "handleSend",
                         in  |-> [form |-> form, stored |-> stored, okUrls |-> okUrls],
                         out |-> IF form.fids = 0
                                 THEN [requested |-> FALSE, body |-> body,
                                       response |-> sendNotification(body, stored, {})]
                                 ELSE [requested |-> TRUE, body |-> body,
                                       response |-> sendNotification(body, stored, okUrls)]]
    /\ UNCHANGED <<chain, minted_nfts, minted_fid, w, h, notification_tokens, ac>>

\* ------------------------------- notification-tokens, farcaster-webhook
\* The fids, tokens and events of the webhook requests.
WebhookFids == {1, 2}
WebhookTokens == {"token-1", "token-2"}
WebhookEvents == {"miniapp_added", "miniapp_removed", "notifications_enabled",
                  "notifications_disabled", "frame_opened"}

\* saveNotificationToken with an upsert that leaves is_active as it is in
\* a row that exists.
saveNotificationTokenKeepsActive(rows, data, dbOk) ==
    IF ~dbOk THEN rows
    ELSE [rows EXCEPT ![data.fid] = [fid |-> data.fid, token |-> data.token,
                                     notification_url |-> data.notificationUrl,
                                     is_active |-> rows[data.fid] = NoRow
                                                       \/ rows[data.fid].is_active]]

\* saveNotificationToken: the upsert on fid; a failing store answers
\* success false and keeps its rows.
saveNotificationToken(rows, data, dbOk) ==
    IF ~dbOk THEN rows
    ELSE [rows EXCEPT ![data.fid] = [fid |-> data.fid, token |-> data.token,
                                     notification_url |-> data.notificationUrl,
                                     is_active |-> TRUE]]

\* deactivateNotificationToken: the update of the rows of the fid.
deactivateNotificationToken(rows, fid, dbOk) ==
    IF ~dbOk \/ rows[fid] = NoRow THEN rows
    ELSE [rows EXCEPT ![fid] = [@ EXCEPT !.is_active = FALSE]]

\* getActiveNotificationTokens: the rows with is_active, as the list the
\* send-notification route maps to token and notificationUrl.
RECURSIVE ActiveTokens(_, _)
ActiveTokens(rows, fids) ==
    IF fids = {} THEN <<>>
    ELSE LET f == CHOOSE f \in fids : \A g \in fids : f >= g
             rest == ActiveTokens(rows, fids \ {f})
         IN  IF rows[f].is_active
             THEN <<[token |-> rows[f].token, notificationUrl |-> rows[f].notification_url]>>
                      \o rest
             ELSE rest

getActiveNotificationTokens(rows) == ActiveTokens(rows, DOMAIN rows)

\* extractFidFromPayload: payload.fid, user.fid, data.fid or
\* untrustedData.fid, the first that is a number; 0 stands for its null.
extractFidFromPayload(payload) ==
    IF payload.fid # 0 THEN payload.fid
    ELSE IF payload.user # 0 THEN payload.user
    ELSE IF payload.data # 0 THEN payload.data
    ELSE IF payload.untrustedData # 0 THEN payload.untrustedData
    ELSE 0

\* The switch of POST on verifiedData.event: the store operation it calls
\* ("none" when it calls none) and the rows after it.
handleEvent(rows, verifiedData, dbOk) ==
    LET fid == extractFidFromPayload(verifiedData)
        details == verifiedData.notificationDetails
        save == [op   |-> "save",
                 rows |-> saveNotificationToken(rows,
                              [fid |-> fid, token |-> details[1].token,
                               notificationUrl |-> details[1].url], dbOk)]
        deactivate == [op   |-> "deactivate",
                       rows |-> deactivateNotificationToken(rows, fid, dbOk)]
        nothing == [op |-> "none", rows |-> rows]
    IN  CASE verifiedData.event \in {"miniapp_added", "notifications_enabled"} ->
                IF details # <<>> /\ fid # 0 THEN save ELSE nothing
          [] verifiedData.event \in {"miniapp_removed", "notifications_disabled"} ->
                IF fid # 0 THEN deactivate ELSE nothing
          [] OTHER -> nothing

\* What parseWebhookEvent throws, and the answer of POST to each.
VerifyErrors ==
    {"VerifyJsonFarcasterSignature.InvalidDataError",
     "VerifyJsonFarcasterSignature.InvalidEventDataError",
     "VerifyJsonFarcasterSignature.InvalidAppKeyError",
     "VerifyJsonFarcasterSignature.VerifyAppKeyError",
     "Error"}

VerifyErrorStatus(name) ==
    CASE name \in {"VerifyJsonFarcasterSignature.InvalidDataError",
                   "VerifyJsonFarcasterSignature.InvalidEventDataError"} -> 400
      [] name = "VerifyJsonFarcasterSignature.InvalidAppKeyError" -> 401
      [] OTHER -> 500

\* The payloads of the requests: an event, its notificationDetails if any
\* (<<>> for none) and the places that carry a fid (0 for none), at most
\* two of them.
WebhookDetails ==
    {<<>>, <<[url |-> NotificationUrls[1], token |-> "token-1"]>>,
           <<[url |-> NotificationUrls[2], token |-> "token-2"]>>}

WebhookPayloads ==
    {[event |-> ev, notificationDetails |-> d, fid |-> f, user |-> u, data |-> da,
      untrustedData |-> un] :
        ev \in WebhookEvents, d \in WebhookDetails,
        <<f, u, da, un>> \in
            {q \in ((WebhookFids \cup {0}) \X (WebhookFids \cup {0})
                    \X (WebhookFids \cup {0}) \X (WebhookFids \cup {0})) :
                \/ Cardinality({i \in 1..4 : q[i] # 0}) <= 1
                \/ q[1] # 0 /\ q[2] # 0 /\ q[1] # q[2] /\ q[3] = 0 /\ q[4] = 0}}

\* POST of /api/farcaster-webhook: a body that is no JSON, a signature
\* that parseWebhookEvent rejects, or an event that is handled, verified
\* by parseWebhookEvent when NEYNAR_API_KEY is set and taken as sent when
\* it is not.
FarcasterWebhook ==
    /\ \/ /\ call' = [op |-> "farcasterWebhook",
                      in |-> [json |-> FALSE],
                      out |-> [status |-> 400, parsed |-> FALSE, storeOp |-> "none"]]
          /\ UNCHANGED notification_tokens
       \/ \E name \in VerifyErrors :
            /\ call' = [op |-> "farcasterWebhook",
                        in |-> [json |-> TRUE, neynarKey |-> TRUE, throws |-> name],
                        out |-> [status |-> VerifyErrorStatus(name), parsed |-> FALSE,
                                 storeOp |-> "none"]]
            /\ UNCHANGED notification_tokens
       \/ \E payload \in WebhookPayloads, neynarKey \in BOOLEAN, dbOk \in BOOLEAN :
            LET r == handleEvent(notification_tokens, payload, dbOk) IN
            /\ r.op = "none" => dbOk
            /\ call' = [op |-> "farcasterWebhook",
                        in |-> [json |-> TRUE, neynarKey |-> neynarKey, throws |-> "",
                                payload |-> payload, dbOk |-> dbOk],
                        out |-> [status |-> 200, parsed |-> neynarKey, storeOp |-> r.op]]
            /\ notification_tokens' = r.rows
    /\ UNCHANGED <<chain, minted_nfts, minted_fid, w, h, ac>>

\* const ADMIN_FID = 235940
ADMIN_FID == 235940

\* The fids of the users who open a page or send a request; 0 for one
\* without a Farcaster context.
UserFids == {0, 1, ADMIN_FID}

\* checkAdminAccess of the admin dashboard and of the broadcast page: the
\* auth state it sets for the fid of sdk.context (0 for none), or in its
\* catch when reading the context throws.
checkAdminAccess(userFid, throws) ==
    IF throws THEN [isAuthorized |-> FALSE, isLoading |-> FALSE, currentFid |-> 0]
    ELSE IF userFid = 0
    THEN [isAuthorized |-> FALSE, isLoading |-> FALSE, currentFid |-> 0]
    ELSE [isAuthorized |-> userFid = ADMIN_FID, isLoading |-> FALSE, currentFid |-> userFid]

\* A user opens the admin dashboard or the broadcast page.
CheckAdminAccess ==
    /\ \E page \in {"admin", "admin/broadcast"}, userFid \in UserFids, throws \in BOOLEAN :
         call' = [op  |-> "checkAdminAccess",
                  in  |-> [page |-> page, userFid |-> userFid, throws |-> throws],
                  out |-> checkAdminAccess(userFid, throws)]
    /\ UNCHANGED <<chain, minted_nfts, minted_fid, w, h, notification_tokens, ac>>

\* withdraw() external onlyOwner, called by any account.
Withdraw ==
    /\ \E caller \in CallerKinds :
         call' = [op  |-> "withdraw",
                  in  |-> [caller |-> caller],
                  out |-> IF caller # "owner" THEN "OwnableUnauthorizedAccount" ELSE "ok"]
    /\ UNCHANGED <<chain, minted_nfts, minted_fid, w, h, notification_tokens, ac>>

\* A broadcast through POST /api/send-notification that passes its
\* validation, to the tokens getActiveNotificationTokens returns; sender
\* is the user whose client sends the request, which carries no identity.
Broadcast ==
    /\ \E success \in BOOLEAN, okUrls \in RelayOutcomes, sender \in UserFids :
         LET body == [title |-> 1, body |-> 1, targetUrl |-> 1, notificationId |-> 1,
                      broadcast |-> TRUE, fids |-> 0]
             stored == [success |-> success,
                        tokens |-> IF success
                                   THEN getActiveNotificationTokens(notification_tokens)
                                   ELSE <<>>]
         IN  call' = [op  |-> "sendNotification",
                      in  |-> [body |-> body, stored |-> stored, okUrls |-> okUrls,
                               sender |-> sender],
                      out |-> sendNotification(body, stored, okUrls)]
    /\ UNCHANGED <<chain, minted_nfts, minted_fid, w, h, notification_tokens, ac>>

\* ------------------------------------------------- useAutoConnectWallet
\* A retry timer that is not armed.
NoTimer == [armed |-> FALSE, connectors |-> FALSE, isConnected |-> FALSE]

\* The hook after its first render. isReady, isConnected, isInFarcaster
\* and connectors (TRUE: the array holds a connector with id
\* 'farcasterMiniApp') are the values of the last render; wallet,
\* farcaster and registered are what useAccount, useIsInFarcaster and
\* useConnect will return at the next one. retryTimer keeps the values its
\* closure captured. connectCalls counts the calls of connect and
\* connectAt is the state of the last one; retryFiredConnected records a
\* retry timer that fired while the wallet was connected. mounted is
\* FALSE once the component is unmounted.
ACInit ==
    [mounted |-> TRUE, readyTimer |-> TRUE, isReady |-> FALSE,
     isConnected |-> FALSE, isInFarcaster |-> FALSE, connectors |-> FALSE,
     wallet |-> FALSE, farcaster |-> FALSE, registered |-> FALSE,
     hasTriedConnect |-> FALSE, retryTimer |-> NoTimer,
     connectCalls |-> 0,
     connectAt |-> [isReady |-> FALSE, wallet |-> FALSE, farcaster |-> FALSE,
                    registered |-> FALSE],
     retryFiredConnected |-> FALSE]

\* connect({ connector }): the call is counted with the state it is made in.
connect(a) ==
    [a EXCEPT !.hasTriedConnect = TRUE,
              !.connectCalls = @ + 1,
              !.connectAt = [isReady |-> a.isReady, wallet |-> a.wallet,
                             farcaster |-> a.farcaster,
                             registered |-> a.registered]]

\* The second effect, run with the values of the render `a`: its guards,
\* the retry timer when the connector is not found, the connection
\* otherwise.
autoConnectEffect(a) ==
    IF ~a.isReady \/ a.isConnected \/ a.hasTriedConnect \/ ~a.isInFarcaster
    THEN a
    ELSE IF ~a.connectors
    THEN [a EXCEPT !.retryTimer = [armed |-> TRUE, connectors |-> a.connectors,
                                   isConnected |-> a.isConnected]]
    ELSE connect(a)

\* A render after which a dependency of the effect differs: the cleanup
\* of the last run clears its retry timer, then the effect runs.
Rerender(a) ==
    LET r == [a EXCEPT !.isConnected = a.wallet,
                       !.isInFarcaster = a.farcaster,
                       !.connectors = a.registered]
    IN  IF /\ r.isReady = ac.isReady
           /\ r.isConnected = ac.isConnected
           /\ r.isInFarcaster = ac.isInFarcaster
           /\ r.connectors = ac.connectors
        THEN r
        ELSE autoConnectEffect([r EXCEPT !.retryTimer = NoTimer])

\* A retry closure that looks the connector up in the connectors of the
\* latest render instead of those of its own render.
retryConnectorLatest(a) == a.registered

\* retryConnector of the retry closure: connectors.find over the array of
\* the render that armed the timer.
retryConnector(a) == a.retryTimer.connectors

\* The 800 ms timer of the first effect: setIsReady(true) and the render.
ReadyTimerFires ==
    /\ ac.readyTimer
    /\ ac' = Rerender([ac EXCEPT !.readyTimer = FALSE, !.isReady = TRUE])
    /\ UNCHANGED <<chain, minted_nfts, minted_fid, w, h, call, notification_tokens>>

\* useAccount: the wallet connects, after connect or by the user, or
\* disconnects; the render follows later.
WalletChanges ==
    /\ ac' = [ac EXCEPT !.wallet = ~@]
    /\ UNCHANGED <<chain, minted_nfts, minted_fid, w, h, call, notification_tokens>>

\* useIsInFarcaster: the app is found to run inside Farcaster.
FarcasterDetected ==
    /\ ~ac.farcaster
    /\ ac' = [ac EXCEPT !.farcaster = TRUE]
    /\ UNCHANGED <<chain, minted_nfts, minted_fid, w, h, call, notification_tokens>>

\* useConnect: the connector 'farcasterMiniApp' is registered, in a new
\* connectors array.
ConnectorRegistered ==
    /\ ~ac.registered
    /\ ac' = [ac EXCEPT !.registered = TRUE]
    /\ UNCHANGED <<chain, minted_nfts, minted_fid, w, h, call, notification_tokens>>

\* The render that follows a change of a hook value.
Render ==
    /\ ac.mounted
    /\ \/ ac.isConnected # ac.wallet
       \/ ac.isInFarcaster # ac.farcaster
       \/ ac.connectors # ac.registered
    /\ ac' = Rerender(ac)
    /\ UNCHANGED <<chain, minted_nfts, minted_fid, w, h, call, notification_tokens>>

\* The 1000 ms retry timer: it tests the isConnected of its own render and
\* the ref hasTriedConnect.
RetryTimerFires ==
    /\ ac.retryTimer.armed
    /\ LET a == [ac EXCEPT !.retryTimer = NoTimer,
                           !.retryFiredConnected = @ \/ ac.wallet]
       IN  ac' = IF /\ retryConnector(ac)
                    /\ ~ac.retryTimer.isConnected
                    /\ ~ac.hasTriedConnect
                 THEN connect(a)
                 ELSE a
    /\ UNCHANGED <<chain, minted_nfts, minted_fid, w, h, call, notification_tokens>>

\* The component unmounts: the cleanups of both effects clear their timers.
Unmount ==
    /\ ac.mounted
    /\ ac' = [ac EXCEPT !.mounted = FALSE, !.readyTimer = FALSE,
                        !.retryTimer = NoTimer]
    /\ UNCHANGED <<chain, minted_nfts, minted_fid, w, h, call, notification_tokens>>

NextConnect ==
    \/ ReadyTimerFires
    \/ WalletChanges
    \/ FarcasterDetected
    \/ ConnectorRegistered
    \/ Render
    \/ RetryTimerFires
    \/ Unmount

\* ------------------------------------------------------- specifications
\* The contract after its constructor and the empty tables.
InitWorld ==
    /\ chain = [totalMinted          |-> 0,
                farcasterIdToTokenId |-> [f \in ContractFids |-> 0],
                tokenIdToFarcasterId |-> [t \in 1..MAX_SUPPLY |-> 0]]
    /\ minted_nfts = {}
    /\ minted_fid = {}
    /\ call = NoCall
    /\ notification_tokens = [f \in WebhookFids |-> NoRow]
    /\ ac = ACInit

\* A page that is not rendered: none of its effects or handlers runs.
WUnmounted == [WInit EXCEPT !.sdk = "unmounted"]
HUnmounted == [HInit EXCEPT !.ctx = "unmounted"]

\* Two WinterCheerMint sessions.
InitRace ==
    /\ InitWorld
    /\ w = [s \in WSessions |-> WInit]
    /\ h = HUnmounted

\* Two WinterCheerMint sessions and the other callers of the contract.
NextRace ==
    \/ \E s \in WSessions : WStep(s)
    \/ AdminMint
    \/ DirectMint

SpecRace == InitRace /\ [][NextRace]_vars

\* The session renders one of the two mint pages: the WinterCheerMint
\* component or MintInterface with its hook.
Init ==
    /\ InitWorld
    /\ \/ /\ w = [s \in WSessions |-> IF s = "w1" THEN WInit ELSE WUnmounted]
          /\ h = HUnmounted
       \/ /\ w = [s \in WSessions |-> WUnmounted]
          /\ h = HInit

\* One mint page, and the other callers of the contract and of the store.
Next ==
    \/ WStep("w1")
    \/ HStep
    \/ DirectMint
    \/ OtherClientRecord
    \/ OtherSessionRecordMint

Spec == Init /\ [][Next]_vars

\* No page is rendered: the library functions and routes are called directly.
InitLib ==
    /\ InitWorld
    /\ w = [s \in WSessions |-> WUnmounted]
    /\ h = HUnmounted

\* One call per behaviour: the functions keep nothing between calls.
NextLib ==
    \/ CallAnalyzePFP
    \/ CallAnalyzePFPClient
    \/ CallGenerateTraits
    \/ CallGenerateNft
    \/ CallTraitsToAttributes
    \/ CallHexToColorName
    \/ CallSendNotification
    \/ HandleSend

SpecLib == InitLib /\ [][NextLib]_vars

\* The documented contract alone, called by any account.
NextContract ==
    \/ ContractMint
    \/ ContractAdminMint

SpecContract == InitLib /\ [][NextContract]_vars

\* The notification tokens and the admin surface: the webhook, the
\* broadcasts, the admin pages and withdraw.
NextNotify ==
    \/ FarcasterWebhook
    \/ Broadcast
    \/ CheckAdminAccess
    \/ Withdraw

SpecNotify == InitLib /\ [][NextNotify]_vars

\* One mount of useAutoConnectWallet.
SpecConnect == InitLib /\ [][NextConnect]_vars

\* ---------------------------------------------------------------- claims
\* C1 as stated: a call of mint for a fid that already has a token reverts
\* with 'FID already minted', and the session that lost ends in 'error'.
C1_Original ==
    \A s \in WSessions :
        w[s].txPrior =>
            /\ w[s].txResult = "FID already minted"
            /\ w[s].pc \notin {"send", "receipt"} => w[s].mintStatus = "error"

\* No fid has two tokens.
C1_OneTokenPerFid ==
    \A f \in Fids :
        Cardinality({t \in 1..MAX_SUPPLY : chain.tokenIdToFarcasterId[t] = f}) <= 1

\* A transaction of handleMint for a fid that already has a token reverts,
\* by the supply check or by the fid check, and its session ends in 'error'.
C1_LoserErrors ==
    \A s \in WSessions :
        w[s].txPrior =>
            /\ w[s].txResult \in {"FID already minted", "Max supply reached"}
            /\ w[s].pc \notin {"send", "receipt"} =>
                   w[s].mintStatus = "error" /\ ~w[s].att.confirmed

\* A step of the contract never changes or removes the token of a fid.
C1_TokenKept ==
    \A f \in Fids :
        chain.farcasterIdToTokenId[f] # 0 =>
            chain'.farcasterIdToTokenId[f] = chain.farcasterIdToTokenId[f]

\* C1: at most one mint per fid ever succeeds, under every interleaving of
\* mint and adminMint calls: once a fid has a token every later mint or
\* adminMint for it reverts and leaves the token as it is, a handleMint
\* transaction for it reverts with 'FID already minted' or, when the supply
\* check fails first, 'Max supply reached', and that session ends in 'error'.
C1_AtMostOneMint ==
    /\ [](C1_OneTokenPerFid /\ C1_LoserErrors)
    /\ [][C1_TokenKept]_vars

\* Two sessions of one fid: one confirmed, the other reverted into 'error'.
C1_Witness ==
    \E s \in WSessions, t \in WSessions :
        /\ s # t
        /\ w[s].fid = w[t].fid
        /\ w[t].att.confirmed
        /\ w[s].txPrior
        /\ w[s].txResult = "FID already minted"
        /\ w[s].mintStatus = "error"

\* C2 as stated: a flow that starts (handleGenerate reaches its first fetch,
\* mintNFT reaches analyzePfpColor) does so only for a fid that the store
\* does not record as minted at that moment.
C2_Original ==
    [][/\ \A s \in WSessions :
            (w[s].pc = "none" /\ w'[s].pc = "gen") => w[s].fid \notin minted_nfts
       /\ (h.pc = "none" /\ h'.pc = "analyze") => h.fid \notin minted_fid]_vars

\* C3 as stated: once handleMint has a successful receipt it never is in
\* 'error'.
C3_Original ==
    \A s \in WSessions : w[s].att.confirmed => w[s].mintStatus # "error"

\* C4 as stated: in both flows 'success' after a mint transaction was sent
\* means its receipt was obtained with status success.
C4_Original ==
    /\ \A s \in WSessions :
          (w[s].mintStatus = "success" /\ w[s].att.tx) => w[s].att.confirmed
    /\ h.mintState.step = "success" => h.att.confirmed

\* C5 as stated: in both flows a mint record is written only after a receipt
\* with status success.
C5_Original ==
    /\ \A s \in WSessions : w[s].att.recorded => w[s].att.confirmed
    /\ h.att.recorded => h.att.confirmed

\* The changes of MintState.step along the pipeline, and into 'error'.
C6_Pipeline ==
    {<<"idle", "analyzing">>, <<"analyzing", "generating">>,
     <<"generating", "uploading">>, <<"uploading", "minting">>,
     <<"minting", "success">>}
        \cup {<<x, "error">> : x \in {"analyzing", "generating", "uploading", "minting"}}

\* C6 as stated: MintState.step changes only along the pipeline or into
\* 'error' from a non-idle step.
C6_Original ==
    [][h'.mintState.step # h.mintState.step =>
          <<h.mintState.step, h'.mintState.step>> \in C6_Pipeline]_vars

\* 'success' only with generation, upload and transaction of this attempt.
C6_SuccessPassedAll ==
    h.mintState.step = "success" =>
        h.att.gen = "ok" /\ h.att.upload /\ h.att.tx

\* C6: MintState.step changes only one step at a time along idle ->
\* analyzing -> generating -> uploading -> minting -> success, into 'error'
\* from a non-idle step, or from 'error' back to 'analyzing' when mintNFT is
\* called again; 'success' is reached only after each earlier step of the
\* same attempt.
C6_StepOrder ==
    /\ []C6_SuccessPassedAll
    /\ [][h'.mintState.step # h.mintState.step =>
             <<h.mintState.step, h'.mintState.step>>
                 \in C6_Pipeline \cup {<<"error", "analyzing">>}]_vars

\* mintNFT has gone through every step to 'success'.
C6_Witness ==
    /\ h.mintState.step = "success"
    /\ h.att.gen = "ok"
    /\ h.att.upload
    /\ h.att.tx

\* C7: when the image service returns zero images the flow is in 'error' and
\* neither the upload nor the mint transaction was invoked in that attempt,
\* in handleGenerate (through the generate-nft route) and in mintNFT
\* (through generateNFTImage).
C7_ZeroImages ==
    /\ \A s \in WSessions :
          w[s].att.gen = "zero" =>
              w[s].mintStatus = "error" /\ ~w[s].att.upload /\ ~w[s].att.tx
    /\ h.att.gen = "zero" =>
          h.mintState.step = "error" /\ ~h.att.upload /\ ~h.att.tx

\* handleGenerate has ended on an answer with zero images.
C7_Witness ==
    \E s \in WSessions :
        /\ w[s].att.gen = "zero"
        /\ w[s].mintStatus = "error"
        /\ w[s].error = "Failed to generate NFT: No images generated"

\* C8 as stated: from 'error' the component never goes to 'minting' without
\* generating and uploading again.
C8_Original ==
    [][\A s \in WSessions :
          w[s].mintStatus = "error" => w'[s].mintStatus # "minting"]_vars

\* C9: mintNFT called without a connected wallet, an address, a wallet
\* client, a fid or a profile picture URL sets MintState.error to the
\* validation message and changes nothing else: no other MintState field,
\* no call of a collaborator, nothing of the contract or the stores.
C9_ValidationOnly ==
    [][(MintNFT /\ ~MintNFTValid(h)) =>
          /\ h' = [h EXCEPT !.mintState.error =
                      "Please connect wallet and ensure Farcaster context is loaded"]
          /\ h'.pc = "none"
          /\ h'.att = h.att
          /\ UNCHANGED <<chain, minted_nfts, minted_fid, w, call, notification_tokens, ac>>]_vars

\* mintNFT has reported the validation error from 'idle'.
C9_Witness ==
    /\ h.mintState.error = "Please connect wallet and ensure Farcaster context is loaded"
    /\ h.mintState.step = "idle"
    /\ ~MintNFTValid(h)
    /\ h.pc = "none"

C10_Caught ==
    /\ \A s \in WSessions :
          /\ ~w[s].escaped
          /\ (w[s].att.failed /\ w[s].pc = "none") =>
                 IF w[s].hasMinted
                 THEN w[s].mintStatus = "success" /\ w[s].att.confirmed
                 ELSE w[s].mintStatus = "error" /\ w[s].error # "null"
    /\ ~h.escaped
    /\ (h.att.failed /\ h.pc = "none") =>
           h.mintState.step = "error" /\ h.mintState.error # "null"

\* From 'error' a handler runs again only by a click.
C10_NoAutomaticRetry ==
    /\ \A s \in WSessions :
          (w[s].mintStatus = "error" /\ w'[s].pc # "none") =>
              HandleGenerate(s) \/ HandleMint(s)
    /\ (h.mintState.step = "error" /\ h'.pc # "none") => MintNFT

C11_Original ==
    /\ \A s \in WSessions :
          /\ w[s].att.tx => w[s].att.pinned # ""
          /\ w[s].pc = "receipt" => w[s].txUri = w[s].att.pinned
          /\ (w[s].att.upload /\ w[s].att.pinned = "" /\ w[s].pc = "none") =>
                 w[s].mintStatus = "error" /\ ~w[s].att.tx
    /\ h.att.tx => h.att.pinned # ""
    /\ h.pc = "receipt" => h.txUri = h.att.pinned
    /\ (h.att.upload /\ h.att.pinned = "" /\ h.pc = "none") =>
           h.mintState.step = "error" /\ ~h.att.tx

\* A click starts a run of handleGenerate or handleMint in session s.
C12_WStarts(s) ==
    /\ HandleGenerate(s) \/ HandleMint(s)
    /\ w'[s].pc # "none"

\* C12: within one session at most one run of handleGenerate, handleMint or
\* mintNFT is in flight: a click starts a run only when no run of the
\* session is between its start and its end, because the status a run sets
\* before its first await (rendered before the next click is handled)
\* disables or hides the buttons until the run has ended.
C12_OneRunInFlight ==
    [][/\ \A s \in WSessions : C12_WStarts(s) => w[s].pc = "none"
       /\ (MintNFT /\ h'.pc # "none") => h.pc = "none"]_vars

\* A run of handleMint is waiting for its receipt and no button can start
\* another run.
C12_Witness ==
    \E s \in WSessions :
        /\ w[s].pc = "receipt"
        /\ w[s].mintStatus = "minting"
        /\ ~MintEnabled(w[s])
        /\ ~GenerateEnabled(w[s])

\* The calls in which the analysis has no pixel color to report.
C13_NoColor ==
    \/ call.in.kind # "pixels"
    \/ Opaque(call.in.pixels) = <<>>

\* C13 as stated: analyzePFP and analyzePFPClient return the fixed default
\* '#DC2626' on fetch failure, load failure, missing canvas context, no
\* opaque pixel and on any exception.
C13_Original ==
    (call.op \in {"analyzePFP", "analyzePFPClient"} /\ C13_NoColor) =>
        call.out = DefaultColor

\* The members of a catalog.
Members(array) == {array[i] : i \in 1..Len(array)}

C16_Categorical(t) ==
    <<t.skinTone, t.hairStyle, t.eyeStyle, t.outfit, t.accessory,
      t.headAccessory, t.background, t.specialEffect>>

\* C16: the eight categorical fields generateTraits returns depend on the
\* identifier only: a call differing in gender or in color returns the same
\* eight fields.
C16_FidOnly ==
    call.op = "generateTraits" =>
        \A gender \in Genders, dominantColor \in TraitColors :
            C16_Categorical(generateTraits(call.in.fid, gender, dominantColor))
                = C16_Categorical(call.out)

\* generateTraits has returned a TraitSet for one gender and color whose
\* categorical fields are those of a call with the other gender and
\* another color, while the two identifiers next to it pick differently.
C16_Witness ==
    /\ call.op = "generateTraits"
    /\ call.in.gender = "Female"
    /\ call.in.dominantColor = "#1e40af"
    /\ call.in.fid \in 1..MaxTraitFid
    /\ generateTraits(call.in.fid, "Male", "#DC2626").hairColor # call.out.hairColor
    /\ C16_Categorical(generateTraits(call.in.fid, "Male", "#DC2626"))
           = C16_Categorical(call.out)
    /\ C16_Categorical(generateTraits(call.in.fid - 1, "Female", "#1e40af"))
           # C16_Categorical(call.out)

\* C17: the TraitSet of a mint attempt has hairColor equal to outfitColor
\* equal to the supplied color: generateTraits returns it so and no later
\* step of a mint flow changes either field.
C17_Original ==
    /\ call.op = "generateTraits" =>
           /\ call.out.hairColor = call.in.dominantColor
           /\ call.out.outfitColor = call.in.dominantColor
    /\ h.mintState.traits # <<>> =>
           h.mintState.traits[1].hairColor = h.mintState.traits[1].outfitColor

\* The labels of the attributes, in their order.
C18_Labels ==
    <<"Gender", "Skin Tone", "Hair Style", "Hair Color", "Eye Style", "Outfit",
      "Outfit Color", "Accessory", "Head Accessory", "Background", "Special Effect">>

\* The TraitSet fields, in the order of their labels.
C18_Fields(t) ==
    <<t.gender, t.skinTone, t.hairStyle, t.hairColor, t.eyeStyle, t.outfit,
      t.outfitColor, t.accessory, t.headAccessory, t.background, t.specialEffect>>

\* C18: traitsToAttributes returns one entry per TraitSet field, 11 in all,
\* in a fixed order, with pairwise distinct labels of the fixed label set,
\* each value that of its field.
C18_OneEntryPerField ==
    call.op = "traitsToAttributes" =>
        /\ Len(call.out) = 11
        /\ Len(call.out) = Cardinality(DOMAIN call.in)
        /\ \A i \in 1..Len(call.out) :
               /\ call.out[i].trait_type = C18_Labels[i]
               /\ call.out[i].value = C18_Fields(call.in)[i]
        /\ \A i, j \in 1..Len(call.out) :
               i # j => call.out[i].trait_type # call.out[j].trait_type

\* traitsToAttributes has returned the attributes of a TraitSet whose two
\* colors differ.
C18_Witness ==
    /\ call.op = "traitsToAttributes"
    /\ call.in.hairColor # call.in.outfitColor
    /\ call.in.gender = "Female"
    /\ call.out[4].value = call.in.hairColor
    /\ call.out[7].value = call.in.outfitColor

\* The five grayscale names.
C19_Grays == {"pure white", "light gray", "medium gray", "dark gray", "black"}

\* The hue buckets, [lo, hi) in degrees, in the order of the circle.
C19_Buckets ==
    <<[lo |-> 0, hi |-> 15, family |-> "red"],
      [lo |-> 15, hi |-> 45, family |-> "orange-red"],
      [lo |-> 45, hi |-> 70, family |-> "orange"],
      [lo |-> 70, hi |-> 90, family |-> "yellow-orange"],
      [lo |-> 90, hi |-> 150, family |-> "yellow-green"],
      [lo |-> 150, hi |-> 170, family |-> "green"],
      [lo |-> 170, hi |-> 200, family |-> "cyan-green"],
      [lo |-> 200, hi |-> 220, family |-> "cyan"],
      [lo |-> 220, hi |-> 250, family |-> "blue"],
      [lo |-> 250, hi |-> 280, family |-> "purple-blue"],
      [lo |-> 280, hi |-> 310, family |-> "purple"],
      [lo |-> 310, hi |-> 330, family |-> "magenta"],
      [lo |-> 330, hi |-> 345, family |-> "pink-red"],
      [lo |-> 345, hi |-> 360, family |-> "red"]>>

\* The families a descriptor names: those it ends in after a saturation
\* and a brightness.
C19_Families(name) ==
    {C19_Buckets[i].family : i \in
        {i \in 1..Len(C19_Buckets) :
            \E saturation \in {"vivid", "vibrant", "muted", "pale"},
               brightness \in {"very light", "light", "medium", "deep", "very dark"} :
               name = saturation \o " " \o brightness \o " " \o C19_Buckets[i].family}}

\* C19: hexToColorName maps #000000 to 'black', #FFFFFF to 'pure white' and
\* #FF0000 to a descriptor of the red family; a color of saturation below
\* 0.1 maps to one of the five grayscale names and every other color to one
\* hue family, that of a bucket its hue lies in or on the edge of, the
\* buckets covering [0, 360) without gap or overlap.
C19_ColorNames ==
    call.op = "hexToColorName" =>
        LET c == HexToHsl(call.in)
            holding == {i \in 1..Len(C19_Buckets) :
                           /\ C19_Buckets[i].lo * c.hD <= c.hN
                           /\ c.hN < C19_Buckets[i].hi * c.hD}
            touching == {i \in 1..Len(C19_Buckets) :
                            /\ C19_Buckets[i].lo * c.hD <= c.hN
                            /\ c.hN <= C19_Buckets[i].hi * c.hD}
        IN  /\ CleanHex(call.in) = <<"0", "0", "0", "0", "0", "0">> => call.out = "black"
            /\ CleanHex(call.in) \in {<<"F", "F", "F", "F", "F", "F">>,
                                      <<"f", "f", "f", "f", "f", "f">>} =>
                   call.out = "pure white"
            /\ CleanHex(call.in) \in {<<"F", "F", "0", "0", "0", "0">>,
                                      <<"f", "f", "0", "0", "0", "0">>} =>
                   C19_Families(call.out) = {"red"}
            /\ 10 * c.sN < c.sD => call.out \in C19_Grays
            /\ (call.out \in C19_Grays) # (Cardinality(C19_Families(call.out)) = 1)
            /\ 10 * c.sN > c.sD =>
                   /\ call.out \notin C19_Grays
                   /\ \E i \in touching : C19_Families(call.out) = {C19_Buckets[i].family}
            /\ Cardinality(holding) = 1
            /\ C19_Buckets[1].lo = 0
            /\ C19_Buckets[Len(C19_Buckets)].hi = 360
            /\ \A i \in 1..(Len(C19_Buckets) - 1) : C19_Buckets[i].hi = C19_Buckets[i + 1].lo

\* hexToColorName has named a color of the last hue bucket, [345, 360).
C19_Witness ==
    /\ call.op = "hexToColorName"
    /\ call.out = hexToColorName(call.in, 0, 0, 0)
    /\ HexToHsl(call.in).hN >= 345 * HexToHsl(call.in).hD
    /\ 10 * HexToHsl(call.in).sN >= HexToHsl(call.in).sD
    /\ C19_Families(call.out) = {"red"}

\* The strings of a request body satisfy the constraints of the relay.
C20_FieldsValid(body) ==
    /\ body.notificationId >= 1
    /\ body.title \in 1..32
    /\ body.body \in 1..128
    /\ body.targetUrl \in 1..1024

\* C20: every request the send-notification route posts to a notification
\* URL has a non-empty notificationId, a title of 1 to 32 characters, a body
\* of 1 to 128, a targetUrl of 1 to 1024 and at most 100 tokens; a request
\* body violating a field constraint is answered 400 and nothing is posted.
C20_RequestsValid ==
    call.op = "sendNotification" =>
        /\ \A req \in call.out.requests :
               /\ C20_FieldsValid(req.payload)
               /\ Len(req.payload.tokens) \in 1..100
        /\ ~C20_FieldsValid(call.in.body) =>
               call.out.status = 400 /\ call.out.requests = {}

\* The route has posted a title of 32, a body of 128 and a targetUrl of
\* 1024 characters for 201 tokens, 100 of them in one request.
C20_Witness ==
    /\ call.op = "sendNotification"
    /\ call.in.body.title = 32
    /\ call.in.body.body = 128
    /\ call.in.body.targetUrl = 1024
    /\ Len(call.in.stored.tokens) = 2 * batchSize + 1
    /\ Cardinality(call.out.requests) = 3
    /\ \E req \in call.out.requests : Len(req.payload.tokens) = 100

\* A step is a call the contract rejected.
C21_Rejected == call'.op \in {"mint", "adminMint"} /\ call'.out # "ok"

\* C21: totalMinted never exceeds MAX_SUPPLY, a call of mint succeeds only
\* with a payment of at least MINT_FEE and a non-empty metadata URI, and a
\* rejected call changes no contract state.
C21_SupplyAndMintChecks ==
    /\ [](/\ chain.totalMinted <= MAX_SUPPLY
          /\ (call.op = "mint" /\ call.out = "ok") =>
                 call.in.value >= MINT_FEE /\ call.in.uri # "")
    /\ [][C21_Rejected => chain' = chain]_vars

\* With the supply used up, a paid mint with a URI for a fid that has no
\* token has been rejected for the supply.
C21_Witness ==
    /\ chain.totalMinted = MAX_SUPPLY
    /\ call.op = "mint"
    /\ call.in.value >= MINT_FEE
    /\ call.in.uri # ""
    /\ chain.farcasterIdToTokenId[call.in.fid] = 0
    /\ call.out = "Max supply reached"

\* C22: the farcaster-webhook handler saves or deactivates a notification
\* token only for an event whose signature parseWebhookEvent has verified,
\* and a verification failure is answered 400, 401 or 500 with the token
\* store unchanged.
C22_Original ==
    /\ [](call.op = "farcasterWebhook" =>
            /\ call.out.storeOp # "none" => call.out.parsed
            /\ (call.in.json /\ call.in.throws # "") =>
                   call.out.status \in {400, 401, 500} /\ call.out.storeOp = "none")
    /\ [][(call'.op = "farcasterWebhook" /\ ~call'.out.parsed) =>
             notification_tokens' = notification_tokens]_vars

\* The fid of the event of a webhook step, 0 when none can be extracted.
C24_Fid == extractFidFromPayload(call'.in.payload)

\* A webhook step handles an event that saves a token: miniapp_added or
\* notifications_enabled with notificationDetails and a fid.
C24_Saves ==
    /\ call'.in.payload.event \in {"miniapp_added", "notifications_enabled"}
    /\ call'.in.payload.notificationDetails # <<>>
    /\ C24_Fid # 0

\* A webhook step handles an event that deactivates a token.
C24_Deactivates ==
    /\ call'.in.payload.event \in {"miniapp_removed", "notifications_disabled"}
    /\ C24_Fid # 0

\* What a handled event does to the rows when the store succeeds.
C24_EventStep ==
    (call'.op = "farcasterWebhook" /\ call'.out.status = 200 /\ call'.in.dbOk) =>
        /\ C24_Saves =>
              /\ notification_tokens'[C24_Fid].is_active
              /\ notification_tokens'[C24_Fid].token
                     = call'.in.payload.notificationDetails[1].token
              /\ notification_tokens'[C24_Fid].notification_url
                     = call'.in.payload.notificationDetails[1].url
        /\ C24_Deactivates => ~notification_tokens'[C24_Fid].is_active
        /\ \A f \in WebhookFids :
              (f # C24_Fid \/ ~(C24_Saves \/ C24_Deactivates)) =>
                  notification_tokens'[f] = notification_tokens[f]

\* The tokens a broadcast step hands to the relays are those of the rows
\* that are active at that time.
C24_BroadcastStep ==
    (call'.op = "sendNotification" /\ call'.in.stored.success) =>
        {req.payload.tokens[i].token :
            <<req, i>> \in {<<req, i>> \in call'.out.requests \X (1..Cardinality(WebhookFids)) :
                              i <= Len(req.payload.tokens)}}
          = {notification_tokens[f].token :
                f \in {f \in WebhookFids : notification_tokens[f].is_active}}

\* C24: with the store succeeding, the token of a fid is active exactly
\* when the last event that affected it was miniapp_added or
\* notifications_enabled with notificationDetails, whose token and url it
\* then holds; miniapp_removed and notifications_disabled deactivate it,
\* any other event and an event without a fid leave the rows as they are,
\* and a broadcast sends to the tokens active at that time only.
C24_LastEventDecides ==
    [][C24_EventStep /\ C24_BroadcastStep]_vars

\* notifications_enabled has activated again, with a new token and url, a
\* token that an earlier event had deactivated, while the token of
\* another fid stays deactivated.
C24_Witness ==
    /\ call.op = "farcasterWebhook"
    /\ call.out.storeOp = "save"
    /\ call.in.payload.event = "notifications_enabled"
    /\ \E f \in WebhookFids, g \in WebhookFids :
          /\ f = extractFidFromPayload(call.in.payload)
          /\ notification_tokens[f].is_active
          /\ notification_tokens[f].token = "token-2"
          /\ g # f
          /\ notification_tokens[g] # NoRow
          /\ ~notification_tokens[g].is_active

\* C23: only the authorized identity can use the admin surface: the admin
\* pages show their privileged content only for a context whose fid is
\* ADMIN_FID, a missing fid or an exception yields unauthorized, a
\* broadcast through POST /api/send-notification is performed only for
\* that identity and a withdraw only for the owner of the contract.
C23_Original ==
    /\ call.op = "checkAdminAccess" =>
          /\ (~call.out.isLoading /\ call.out.isAuthorized) =>
                 ~call.in.throws /\ call.in.userFid = ADMIN_FID
          /\ (call.in.throws \/ call.in.userFid = 0) => ~call.out.isAuthorized
    /\ (call.op = "sendNotification" /\ call.in.body.broadcast
            /\ call.out.requests # {}) => call.in.sender = ADMIN_FID
    /\ (call.op = "withdraw" /\ call.out = "ok") => call.in.caller = "owner"

\* C25: POST /api/generate-nft accepts every request that carries a
\* non-negative fid (0 included), a gender and a color: it answers 400
\* 'Missing required fields' only when one of the three fields is absent,
\* and generateTraits returns traits for every such fid.
C25_Original ==
    call.op = "generateNft" =>
        /\ call.out.status = 400 =>
              \/ ~call.in.body.hasFid
              \/ ~call.in.body.hasGender
              \/ ~call.in.body.hasDominantColor
        /\ (call.out.status # 400 /\ ~call.in.fluxThrew /\ call.in.images > 0) =>
              call.out.traits # <<>>

C27_Original ==
    (call.op = "handleSend" /\ call.out.requested /\ isFormValid(call.in.form)) =>
        /\ validateRequest(call.out.body) = ""
        /\ call.out.response.status # 400
        /\ call.in.stored.tokens # <<>> => call.out.response.requests # {}

\* C28: in the answer of POST /api/send-notification, sent + failed never
\* exceeds totalRecipients: a token handed to a relay is counted at most
\* once, also when the request to one notification URL of a batch fails
\* and the request to another URL of the batch succeeds.
C28_Original ==
    (call.op = "sendNotification" /\ call.out.requests # {}) =>
        call.out.sent + call.out.failed <= call.out.totalRecipients

\* C29: the status check WinterCheerMint makes when it mounts always ends
\* the 'checking' state: once the request to /api/check-mint-status has
\* completed, with a success answer, an error answer without a success
\* flag or a thrown failure, mintStatus is no longer 'checking', so the
\* generate and mint buttons are not hidden for good.
C29_Original ==
    \A s \in WSessions :
        w[s].ck = "done" => w[s].mintStatus # "checking"

\* The call on record succeeded for fid.
C30_Succeeded(fid) ==
    /\ call'.op \in {"mint", "adminMint"}
    /\ call'.out = "ok"
    /\ call'.in.fid = fid

\* C30: in every reachable state of the contract farcasterIdToTokenId and
\* tokenIdToFarcasterId are inverse of each other on the minted entries,
\* the token ids issued are exactly 1..totalMinted, none of them twice,
\* and hasFidMinted(fid) is true exactly for the fids of the successful
\* calls of mint and adminMint.
C30_MappingsInverse ==
    /\ [](/\ \A fid \in ContractFids :
               hasFidMinted(fid) =>
                  /\ chain.farcasterIdToTokenId[fid] \in 1..chain.totalMinted
                  /\ chain.tokenIdToFarcasterId[chain.farcasterIdToTokenId[fid]] = fid
          /\ \A tokenId \in 1..MAX_SUPPLY :
               IF tokenId <= chain.totalMinted
               THEN /\ chain.tokenIdToFarcasterId[tokenId] \in ContractFids
                    /\ chain.farcasterIdToTokenId[chain.tokenIdToFarcasterId[tokenId]] = tokenId
               ELSE chain.tokenIdToFarcasterId[tokenId] = 0
          /\ {chain.farcasterIdToTokenId[fid] :
                 fid \in {f \in ContractFids : hasFidMinted(f)}} = 1..chain.totalMinted
          /\ Cardinality({f \in ContractFids : hasFidMinted(f)}) = chain.totalMinted)
    /\ [][\A fid \in ContractFids :
             hasFidMinted(fid)' = (hasFidMinted(fid) \/ C30_Succeeded(fid))]_vars

\* Two tokens have been issued, the last one by adminMint, to two fids
\* that each map to their token and back.
C30_Witness ==
    /\ chain.totalMinted >= 2
    /\ call.op = "adminMint"
    /\ call.out = "ok"
    /\ chain.farcasterIdToTokenId[call.in.fid] = chain.totalMinted
    /\ chain.tokenIdToFarcasterId[1] # call.in.fid

====
